---- MODULE Spec2Model ----
(***************************************************************************)
(* A model of the vddb columnar database: value and block codecs, block    *)
(* metadata, column stores, secondary indexes, the schema, the storage     *)
(* manager, the query engine and the transaction manager.                  *)
(*                                                                         *)
(* Files of the data directory are part of the state (variable disk): the  *)
(* column files are byte sequences, written by compress and read back by   *)
(* Block::deserialize exactly as ColumnStore.append / read_block do.       *)
(***************************************************************************)
EXTENDS Integers, Sequences, FiniteSets, TLC

(***************************************************************************)
(* Values (types.rs).  A Value is a tagged scalar.  Both payload fields    *)
(* are always present so that values of different types can be compared.   *)
(* A string payload is its sequence of UTF-8 bytes.  Float32 values occur   *)
(* as the results of aggregations only; no modelled column holds them.     *)
(***************************************************************************)
Int32(n) == [t |-> "Int32", n |-> n, s |-> <<>>]

String(s) == [t |-> "String", n |-> 0, s |-> s]

\* a Float32 is kept as a whole number of parts of one: FloatUnit parts make
\* 1.0, so that the quotients of the sums below by a row count are exact
FloatUnit == 60

Float32(parts) == [t |-> "Float32", n |-> parts, s |-> <<>>]

data_type(v) == v.t

\* lexicographic order on byte strings (the order of Rust's String)
RECURSIVE StrLess(_, _)
StrLess(a, b) ==
    IF b = <<>> THEN FALSE
    ELSE IF a = <<>> THEN TRUE
    ELSE IF Head(a) # Head(b) THEN Head(a) < Head(b)
    ELSE StrLess(Tail(a), Tail(b))

\* rank of the enum variant, for the derived Ord of Value
VariantRank(v) == IF v.t = "Int32" THEN 0 ELSE IF v.t = "Float32" THEN 1 ELSE 2

\* #[derive(PartialOrd, Ord)] on Value: variant order first, then payload
ValueLess(a, b) ==
    IF VariantRank(a) # VariantRank(b) THEN VariantRank(a) < VariantRank(b)
    ELSE IF a.t = "String" THEN StrLess(a.s, b.s)
    ELSE a.n < b.n

\* iter().min_by(|a, b| a.cmp(b)) over a non-empty sequence
RECURSIVE MinValue(_)
MinValue(vs) ==
    IF Len(vs) = 1 THEN vs[1]
    ELSE LET m == MinValue(Tail(vs))
         IN  IF ValueLess(m, vs[1]) THEN m ELSE vs[1]

\* a max that takes the first value of the sequence
MaxValue_first(vs) == vs[1]

\* iter().max_by(|a, b| a.cmp(b)) over a non-empty sequence
RECURSIVE MaxValue(_)
MaxValue(vs) ==
    IF Len(vs) = 1 THEN vs[1]
    ELSE LET m == MaxValue(Tail(vs))
         IN  IF ValueLess(vs[1], m) THEN m ELSE vs[1]

(***************************************************************************)
(* Little-endian integers.  Every byte the model writes is below 128, so a *)
(* 32-bit read never exceeds 2^31 - 1 and signed and unsigned reads agree. *)
(***************************************************************************)
U32Bytes(u) ==
    << u % 256, (u \div 256) % 256, (u \div 65536) % 256, (u \div 16777216) % 256 >>

U64Bytes(u) == U32Bytes(u) \o <<0, 0, 0, 0>>

\* the 32-bit little-endian integer at byte position pos (0-based) of bytes
ReadU32(bytes, pos) ==
    bytes[pos + 1] + 256 * bytes[pos + 2] + 65536 * bytes[pos + 3]
        + 16777216 * bytes[pos + 4]

\* the bytes from 0-based position pos to the end: &bytes[pos..]
From(bytes, pos) == SubSeq(bytes, pos + 1, Len(bytes))

(***************************************************************************)
(* Results.  Ok(v) and Err(kind) stand for Rust's Result<T, DbError>.      *)
(***************************************************************************)
Ok(v) == [ok |-> TRUE, err |-> "", v |-> v]

Err(kind, dflt) == [ok |-> FALSE, err |-> kind, v |-> dflt]

(***************************************************************************)
(* Value codec (types.rs) and compression codec (storage/compression.rs).  *)
(***************************************************************************)
\* String::from_utf8 on a byte string: bytes below 128 are ASCII, hence valid
ValidUtf8(bytes) == \A i \in 1..Len(bytes) : bytes[i] < 128

\* Value::serialize
serialize(v) ==
    IF v.t = "String" THEN U32Bytes(Len(v.s)) \o v.s ELSE U32Bytes(v.n)

\* Value::deserialize
deserialize(dt, bytes) ==
    IF dt = "String"
    THEN IF Len(bytes) >= 4
         THEN LET len == ReadU32(bytes, 0)
              IN  IF Len(bytes) >= 4 + len
                  THEN IF ValidUtf8(SubSeq(bytes, 5, 4 + len))
                       THEN Ok(String(SubSeq(bytes, 5, 4 + len)))
                       ELSE Err("SerializationError", Int32(0))
                  ELSE Err("SerializationError", Int32(0))
         ELSE Err("SerializationError", Int32(0))
    ELSE IF Len(bytes) >= 4
         THEN Ok([t |-> dt, n |-> ReadU32(bytes, 0), s |-> <<>>])
         ELSE Err("SerializationError", Int32(0))

\* the per-value encoding used by compress and write_rle_value
\* (write_i32 for a number, a u64 length and the bytes for a string)
CompressValueBytes(v) ==
    IF v.t = "String" THEN U64Bytes(Len(v.s)) \o v.s ELSE U32Bytes(v.n)

\* the positions at which the pass of compress(Rle) starts a run: the first
\* value, and every value that differs from the one before it
RunStarts(values) ==
    {i \in 1..Len(values) : i = 1 \/ values[i] # values[i - 1]}

\* the single left-to-right pass of compress(Rle): adjacent equal values
\* are grouped into runs <<value, count>>; the k-th run reaches from the
\* k-th start to the value before the next start
RleRuns(values) ==
    LET starts == RunStarts(values)
        start(k) == CHOOSE i \in starts : Cardinality({j \in starts : j < i}) = k - 1
        next(k) == IF k = Cardinality(starts) THEN Len(values) + 1 ELSE start(k + 1)
    IN  [k \in 1..Cardinality(starts) |->
            [val |-> values[start(k)], cnt |-> next(k) - start(k)]]

\* write_rle_value for each run, in order
RECURSIVE WriteRuns(_)
WriteRuns(runs) ==
    IF runs = <<>> THEN <<>>
    ELSE <<runs[1].cnt>> \o CompressValueBytes(runs[1].val) \o WriteRuns(Tail(runs))

\* the dictionary of compress(Dictionary): the distinct strings in
\* first-appearance order; the string at position i has id i - 1
RECURSIVE DictOf(_, _)
DictOf(values, acc) ==
    IF values = <<>> THEN acc
    ELSE IF \E i \in 1..Len(acc) : acc[i] = Head(values)
         THEN DictOf(Tail(values), acc)
         ELSE DictOf(Tail(values), Append(acc, Head(values)))

DictId(dict, v) == (CHOOSE i \in 1..Len(dict) : dict[i] = v) - 1

RECURSIVE ConcatAll(_)
ConcatAll(seqs) ==
    IF seqs = <<>> THEN <<>> ELSE Head(seqs) \o ConcatAll(Tail(seqs))

\* the longest run write_rle_value accepts
RleRunLimit == 255

\* the Rle branch of compress, given the runs
CompressRle(runs) ==
    IF \E i \in 1..Len(runs) : runs[i].cnt > RleRunLimit
    THEN Err("InvalidData", <<>>)
    ELSE Ok(WriteRuns(runs))

\* the Dictionary branch of compress, given the dictionary: the number of
\* values, their ids, the number of dictionary records, the records.  The
\* records are written in a HashMap's iteration order; the model writes them
\* in id order (Block::deserialize never gets as far as the records of a
\* block that compress wrote).
CompressDictionary(values, dict) ==
    Ok(U64Bytes(Len(values))
       \o ConcatAll([i \in 1..Len(values) |-> U64Bytes(DictId(dict, values[i]))])
       \o U64Bytes(Len(dict))
       \o ConcatAll([i \in 1..Len(dict) |->
                        U64Bytes(i - 1) \o U64Bytes(Len(dict[i].s)) \o dict[i].s]))

\* compress
compress(values, compression) ==
    IF compression = "None"
    THEN Ok(ConcatAll([i \in 1..Len(values) |-> CompressValueBytes(values[i])]))
    ELSE IF compression = "Rle"
    THEN IF values = <<>> THEN Ok(<<>>) ELSE CompressRle(RleRuns(values))
    ELSE IF \E i \in 1..Len(values) : values[i].t # "String"
    THEN Err("InvalidData", <<>>)
    ELSE CompressDictionary(values, DictOf(values, <<>>))

\* read_u64: the upper four bytes of every u64 the model writes are zero;
\* a u64 with another upper half is beyond every length and id of the data
ReadU64(bytes, pos) ==
    IF ReadU32(bytes, pos + 4) = 0 THEN ReadU32(bytes, pos) ELSE 2147483647

\* the end of the String branch of a read in decompress: read_exact of len
\* bytes at pos and String::from_utf8
ReadString(data, pos, len) ==
    IF Len(data) - pos < len THEN Err("IoError", <<>>)
    ELSE IF ~ValidUtf8(SubSeq(data, pos + 1, pos + len))
    THEN Err("SerializationError", <<>>)
    ELSE Ok([val |-> String(SubSeq(data, pos + 1, pos + len)), pos |-> pos + len])

\* the value decompress reads at pos for a data type (read_i32, read_f32,
\* or a u64 length and the bytes), with the position after it
ReadValue(data, dt, pos) ==
    IF dt = "String"
    THEN IF Len(data) - pos < 8 THEN Err("SerializationError", <<>>)
         ELSE ReadString(data, pos + 8, ReadU64(data, pos))
    ELSE IF Len(data) - pos < 4 THEN Err("SerializationError", <<>>)
    ELSE Ok([val |-> [t |-> dt, n |-> ReadU32(data, pos), s |-> <<>>],
             pos |-> pos + 4])

\* the loop of the None and Rle branches of decompress, as a run list: a
\* value read by the None branch is a run of one, the Rle branch reads a
\* count byte before each value; DecompressStep is one turn of it, given
\* the count and the value read
RECURSIVE DecompressRuns(_, _, _, _, _)
DecompressStep(data, dt, rle, acc, cnt, value) ==
    IF ~value.ok THEN Err(value.err, <<>>)
    ELSE DecompressRuns(data, dt, rle, value.v.pos,
                        Append(acc, [val |-> value.v.val, cnt |-> cnt]))

DecompressRuns(data, dt, rle, pos, acc) ==
    IF pos >= Len(data) THEN Ok(acc)
    ELSE IF ~rle THEN DecompressStep(data, dt, rle, acc, 1, ReadValue(data, dt, pos))
    ELSE IF data[pos + 1] = 0 THEN Err("SerializationError", <<>>)
    ELSE DecompressStep(data, dt, rle, acc, data[pos + 1],
                        ReadValue(data, dt, pos + 1))

\* the loop of the Dictionary branch that reads value_count ids
RECURSIVE DecompressIds(_, _, _, _)
DecompressIds(data, k, pos, acc) ==
    IF k = 0 THEN Ok([ids |-> acc, pos |-> pos])
    ELSE IF Len(data) - pos < 8 THEN Err("SerializationError", <<>>)
    ELSE DecompressIds(data, k - 1, pos + 8, Append(acc, ReadU64(data, pos)))

\* the loop of the Dictionary branch that reads dict_size records of an id
\* and a string; DecompressRecord is one turn of it, given the string read
RECURSIVE DecompressRecords(_, _, _, _)
DecompressRecord(data, k, acc, id, value) ==
    IF ~value.ok THEN Err(value.err, <<>>)
    ELSE DecompressRecords(data, k - 1, value.v.pos,
                           Append(acc, [id |-> id, val |-> value.v.val]))

DecompressRecords(data, k, pos, acc) ==
    IF k = 0 THEN Ok(acc)
    ELSE IF Len(data) - pos < 8 THEN Err("SerializationError", <<>>)
    ELSE DecompressRecord(data, k, acc, ReadU64(data, pos),
                          ReadValue(data, "String", pos + 8))

\* the last loop of the Dictionary branch: every id is looked up in the
\* dictionary (a HashMap: the last record of an id wins)
DecompressLookup(ids, dict) ==
    IF ~dict.ok THEN dict
    ELSE IF \E i \in 1..Len(ids) : \A k \in 1..Len(dict.v) : dict.v[k].id # ids[i]
    THEN Err("SerializationError", <<>>)
    ELSE Ok([i \in 1..Len(ids) |->
                [val |-> dict.v[CHOOSE k \in 1..Len(dict.v) :
                                   /\ dict.v[k].id = ids[i]
                                   /\ \A m \in (k + 1)..Len(dict.v) :
                                         dict.v[m].id # ids[i]].val,
                 cnt |-> 1]])

\* the Dictionary branch of decompress once the ids are read
DecompressDictionary(data, r) ==
    IF ~r.ok THEN r
    ELSE IF Len(data) - r.v.pos < 8 THEN Err("SerializationError", <<>>)
    ELSE DecompressLookup(r.v.ids,
                          DecompressRecords(data, ReadU64(data, r.v.pos),
                                            r.v.pos + 8, <<>>))

\* decompress, as a run list
decompress(data, compression, dt) ==
    IF compression = "None" THEN DecompressRuns(data, dt, FALSE, 0, <<>>)
    ELSE IF compression = "Rle" THEN DecompressRuns(data, dt, TRUE, 0, <<>>)
    ELSE IF Len(data) < 8 THEN Err("SerializationError", <<>>)
    ELSE IF ReadU64(data, 0) = 0 THEN Ok(<<>>)
    ELSE DecompressDictionary(data, DecompressIds(data, ReadU64(data, 0), 8, <<>>))

(***************************************************************************)
(* Block (storage/block.rs).  A decoded block is a list of runs            *)
(* <<value, count>>: the values of the block are the concatenation of      *)
(* count copies of each value, in order.                                   *)
(***************************************************************************)
\* the number of values of a run list
RECURSIVE RunsLen(_)
RunsLen(runs) == IF runs = <<>> THEN 0 ELSE runs[1].cnt + RunsLen(Tail(runs))

\* the value at 0-based index i of a run list (i < RunsLen(runs))
RECURSIVE RunsAt(_, _)
RunsAt(runs, i) ==
    IF i < runs[1].cnt THEN runs[1].val ELSE RunsAt(Tail(runs), i - runs[1].cnt)

\* one value per run of a run list: what the list holds, each value once
\* per run (every run of a list that was read has a positive count)
RunValues(runs) == [j \in 1..Len(runs) |-> runs[j].val]

\* a sequence of values as a run list, one run per value
AsRuns(values) == [i \in 1..Len(values) |-> [val |-> values[i], cnt |-> 1]]

\* Block::new
Block_new(values, compression) ==
    IF values = <<>> THEN Err("InvalidData", <<>>) ELSE Ok(values)

\* decompress_rle: every <<value, count>> pair expands to count copies
decompress_rle(compressed) == SelectSeq(compressed, LAMBDA r : r.cnt > 0)

\* decompress_dictionary: every index is replaced by the dictionary's value
\* for it (the last record with that id wins, as in a HashMap); an index the
\* dictionary lacks yields nothing
decompress_dictionary(indices, dict) ==
    LET Has(id) == \E k \in 1..Len(dict) : dict[k].id = id
        Get(id) == dict[CHOOSE k \in 1..Len(dict) :
                          /\ dict[k].id = id
                          /\ \A m \in (k + 1)..Len(dict) : dict[m].id # id].val
        known   == SelectSeq(indices, Has)
    IN  [i \in 1..Len(known) |-> [val |-> Get(known[i]), cnt |-> 1]]

\* the size of the value that Block::deserialize has just decoded at pos
ValueSize(dt, bytes, pos) ==
    IF dt = "String" THEN ReadU32(bytes, pos) + 4 ELSE 4

\* the loop of the None branch: len values, one after the other; NoneStep
\* is one turn of it, given the value decoded at pos
RECURSIVE NoneLoop(_, _, _, _, _)
NoneStep(bytes, dt, k, pos, acc, value) ==
    IF ~value.ok THEN Err(value.err, <<>>)
    ELSE NoneLoop(bytes, dt, k - 1, pos + ValueSize(dt, bytes, pos),
                  Append(acc, [val |-> value.v, cnt |-> 1]))

NoneLoop(bytes, dt, k, pos, acc) ==
    IF k = 0 THEN Ok(acc)
    ELSE NoneStep(bytes, dt, k, pos, acc, deserialize(dt, From(bytes, pos)))

\* the loop of the Rle branch: len records of a value followed by a u32
\* count; RleStep is one turn of it, given the value decoded at pos
RECURSIVE RleLoop(_, _, _, _, _)
RleStep(bytes, dt, k, pos2, acc, value) ==
    IF ~value.ok THEN Err(value.err, <<>>)
    ELSE IF Len(bytes) - pos2 < 4 THEN Err("IoError", <<>>)
    ELSE RleLoop(bytes, dt, k - 1, pos2 + 4,
                 Append(acc, [val |-> value.v, cnt |-> ReadU32(bytes, pos2)]))

RleLoop(bytes, dt, k, pos, acc) ==
    IF k = 0 THEN Ok(acc)
    ELSE RleStep(bytes, dt, k, pos + ValueSize(dt, bytes, pos), acc,
                 deserialize(dt, From(bytes, pos)))

\* the first loop of the Dictionary branch: dict_len records of a u32 id
\* followed by a value; yields the dictionary and the position after it;
\* DictStep is one turn of it, given the value decoded at pos + 4
RECURSIVE DictLoop(_, _, _, _, _)
DictStep(bytes, dt, k, pos, acc, value) ==
    IF ~value.ok THEN Err(value.err, [dict |-> <<>>, pos |-> 0])
    ELSE DictLoop(bytes, dt, k - 1, pos + 4 + ValueSize(dt, bytes, pos + 4),
                  Append(acc, [id |-> ReadU32(bytes, pos), val |-> value.v]))

DictLoop(bytes, dt, k, pos, acc) ==
    IF k = 0 THEN Ok([dict |-> acc, pos |-> pos])
    ELSE IF Len(bytes) - pos < 4 THEN Err("IoError", [dict |-> <<>>, pos |-> 0])
    ELSE DictStep(bytes, dt, k, pos, acc, deserialize(dt, From(bytes, pos + 4)))

\* the second loop of the Dictionary branch: indices_len u32 indices
RECURSIVE IndexLoop(_, _, _, _)
IndexLoop(bytes, k, pos, acc) ==
    IF k = 0 THEN Ok(acc)
    ELSE IF Len(bytes) - pos < 4 THEN Err("IoError", <<>>)
    ELSE IndexLoop(bytes, k - 1, pos + 4, Append(acc, ReadU32(bytes, pos)))

CompressionByte(compression) ==
    IF compression = "None" THEN 0 ELSE IF compression = "Rle" THEN 1 ELSE 2

\* the end of the Rle branch, given the records read
RleBranch(compressed) ==
    IF compressed.ok THEN Ok(decompress_rle(compressed.v)) ELSE compressed

\* the end of the Dictionary branch, given the indices read
IndicesBranch(indices, dict) ==
    IF ~indices.ok THEN indices ELSE Ok(decompress_dictionary(indices.v, dict))

\* the Dictionary branch after its first loop, given the dictionary read
DictionaryBranch(bytes, d) ==
    IF ~d.ok THEN Err(d.err, <<>>)
    ELSE IF Len(bytes) - d.v.pos < 4 THEN Err("IoError", <<>>)
    ELSE IndicesBranch(IndexLoop(bytes, ReadU32(bytes, d.v.pos), d.v.pos + 4, <<>>),
                       d.v.dict)

\* Block::deserialize: a compression byte, then the layout of Block::serialize
Block_deserialize(bytes, dt, compression) ==
    IF Len(bytes) < 1 THEN Err("IoError", <<>>)
    ELSE IF bytes[1] # CompressionByte(compression) THEN Err("InvalidData", <<>>)
    ELSE IF Len(bytes) < 5 THEN Err("IoError", <<>>)
    ELSE IF compression = "None" THEN NoneLoop(bytes, dt, ReadU32(bytes, 1), 5, <<>>)
    ELSE IF compression = "Rle"
    THEN RleBranch(RleLoop(bytes, dt, ReadU32(bytes, 1), 5, <<>>))
    ELSE DictionaryBranch(bytes, DictLoop(bytes, dt, ReadU32(bytes, 1), 5, <<>>))

(***************************************************************************)
(* Conditions (query/mod.rs) and their evaluators.                         *)
(***************************************************************************)
Equal(col, val) == [op |-> "Equal", col |-> col, val |-> val]

GreaterThan(col, val) == [op |-> "GreaterThan", col |-> col, val |-> val]

LessThan(col, val) == [op |-> "LessThan", col |-> col, val |-> val]

And(l, r) == [op |-> "And", l |-> l, r |-> r]

Or(l, r) == [op |-> "Or", l |-> l, r |-> r]

\* Option<Condition>::None
NoCondition == [op |-> "None"]

IsLeaf(cond) == cond.op \in {"Equal", "GreaterThan", "LessThan"}

\* collect_condition_columns
RECURSIVE collect_condition_columns(_)
collect_condition_columns(cond) ==
    IF IsLeaf(cond) THEN {cond.col}
    ELSE collect_condition_columns(cond.l) \cup collect_condition_columns(cond.r)

\* the comparison of two values of one leaf: Equal is Value's derived
\* equality; GreaterThan and LessThan compare payloads of one type and are
\* false across types
Compare(op, a, b) ==
    IF op = "Equal" THEN a = b
    ELSE IF a.t # b.t THEN FALSE
    ELSE IF op = "GreaterThan" THEN ValueLess(b, a)
    ELSE ValueLess(a, b)

\* a matches_condition whose GreaterThan leaf looks at the block's min
RECURSIVE matches_condition_by_min(_, _, _)
matches_condition_by_min(block, cond, column_name) ==
    IF IsLeaf(cond) /\ cond.col = column_name
    THEN IF block.min.t # cond.val.t \/ block.max.t # cond.val.t THEN FALSE
         ELSE IF cond.op = "GreaterThan" THEN ValueLess(cond.val, block.min)
         ELSE IF cond.op = "LessThan" THEN ValueLess(block.min, cond.val)
         ELSE ~ValueLess(cond.val, block.min) /\ ~ValueLess(block.max, cond.val)
    ELSE IF cond.op = "And"
    THEN matches_condition_by_min(block, cond.l, column_name)
           /\ matches_condition_by_min(block, cond.r, column_name)
    ELSE IF cond.op = "Or"
    THEN matches_condition_by_min(block, cond.l, column_name)
           \/ matches_condition_by_min(block, cond.r, column_name)
    ELSE TRUE

\* BlockMetadata::get_blocks::matches_condition
RECURSIVE matches_condition(_, _, _)
matches_condition(block, cond, column_name) ==
    IF IsLeaf(cond) /\ cond.col = column_name
    THEN IF block.min.t # cond.val.t \/ block.max.t # cond.val.t THEN FALSE
         ELSE IF cond.op = "GreaterThan" THEN ValueLess(cond.val, block.max)
         ELSE IF cond.op = "LessThan" THEN ValueLess(block.min, cond.val)
         ELSE ~ValueLess(cond.val, block.min) /\ ~ValueLess(block.max, cond.val)
    ELSE IF cond.op = "And"
    THEN matches_condition(block, cond.l, column_name)
           /\ matches_condition(block, cond.r, column_name)
    ELSE IF cond.op = "Or"
    THEN matches_condition(block, cond.l, column_name)
           \/ matches_condition(block, cond.r, column_name)
    ELSE TRUE

\* an evaluate_condition_block whose Equal leaf leaves out the block's bounds
RECURSIVE evaluate_condition_block_open(_, _, _)
evaluate_condition_block_open(cond, column_name, block) ==
    IF IsLeaf(cond) /\ cond.col = column_name
    THEN IF cond.op = "GreaterThan"
         THEN block.max.t = cond.val.t /\ ValueLess(cond.val, block.max)
         ELSE IF cond.op = "LessThan"
         THEN block.min.t = cond.val.t /\ ValueLess(block.min, cond.val)
         ELSE /\ block.min.t = cond.val.t /\ block.max.t = cond.val.t
              /\ ValueLess(block.min, cond.val) /\ ValueLess(cond.val, block.max)
    ELSE IF cond.op = "And"
    THEN evaluate_condition_block_open(cond.l, column_name, block)
           /\ evaluate_condition_block_open(cond.r, column_name, block)
    ELSE IF cond.op = "Or"
    THEN evaluate_condition_block_open(cond.l, column_name, block)
           \/ evaluate_condition_block_open(cond.r, column_name, block)
    ELSE TRUE

\* evaluator::evaluate_condition_block: GreaterThan looks at the block's max
\* alone, LessThan at its min alone
RECURSIVE evaluate_condition_block(_, _, _)
evaluate_condition_block(cond, column_name, block) ==
    IF IsLeaf(cond) /\ cond.col = column_name
    THEN IF cond.op = "GreaterThan"
         THEN block.max.t = cond.val.t /\ ValueLess(cond.val, block.max)
         ELSE IF cond.op = "LessThan"
         THEN block.min.t = cond.val.t /\ ValueLess(block.min, cond.val)
         ELSE /\ block.min.t = cond.val.t /\ block.max.t = cond.val.t
              /\ ~ValueLess(cond.val, block.min) /\ ~ValueLess(block.max, cond.val)
    ELSE IF cond.op = "And"
    THEN evaluate_condition_block(cond.l, column_name, block)
           /\ evaluate_condition_block(cond.r, column_name, block)
    ELSE IF cond.op = "Or"
    THEN evaluate_condition_block(cond.l, column_name, block)
           \/ evaluate_condition_block(cond.r, column_name, block)
    ELSE TRUE

\* BlockMetadata::get_blocks
get_blocks(blocks, column_name, condition) ==
    IF condition.op = "None" THEN blocks
    ELSE SelectSeq(blocks, LAMBDA b : matches_condition(b, condition, column_name))

\* evaluate_condition_row; column_values maps a column name to a run list
RECURSIVE evaluate_condition_row(_, _, _)
evaluate_condition_row(cond, column_values, row_index) ==
    IF IsLeaf(cond)
    THEN IF cond.col \notin DOMAIN column_values THEN Err("QueryError", FALSE)
         ELSE LET values == column_values[cond.col]
              IN  Ok(/\ row_index < RunsLen(values)
                     /\ Compare(cond.op, RunsAt(values, row_index), cond.val))
    ELSE LET l == evaluate_condition_row(cond.l, column_values, row_index)
         IN  IF ~l.ok THEN l
             ELSE IF cond.op = "And" /\ ~l.v THEN Ok(FALSE)
             ELSE IF cond.op = "Or" /\ l.v THEN Ok(TRUE)
             ELSE evaluate_condition_row(cond.r, column_values, row_index)

(***************************************************************************)
(* Maps with a varying key set (Rust's HashMap).                           *)
(***************************************************************************)
EmptyMap == [k \in {} |-> 0]

Put(m, k, v) == [x \in DOMAIN m \cup {k} |-> IF x = k THEN v ELSE m[x]]

Remove(m, k) == [x \in DOMAIN m \ {k} |-> m[x]]

(***************************************************************************)
(* The database state handed to the operations below is a record db:       *)
(*   schema       table name -> [name, columns, row_count]   (Schema)       *)
(*   columns      table name -> column name -> ColumnStore                  *)
(*   indexes      table name -> column name -> Index                        *)
(*   pending_rows table name -> column name -> sequence of values           *)
(*   disk         the files of the data directory:                          *)
(*     schema_json  [exists, tables]            <data_dir>/schema.json      *)
(*     metadata     column name -> block list   metadata/<column>.json      *)
(*     columns      column name -> bytes        columns/<column>.dat        *)
(*     indexes      <<table, column>> -> cache  indexes/<table>_<col>.idx   *)
(* A ColumnStore is [column, blocks]; an Index is [data_type, cache] with   *)
(* cache a map from values to offset lists.                                 *)
(* Every operation yields [db, ok, err, v]: the state it leaves behind      *)
(* (also when it fails part-way) and its Result.                            *)
(***************************************************************************)
Done(db, v) == [db |-> db, ok |-> TRUE, err |-> "", v |-> v]

Fail(db, kind) == [db |-> db, ok |-> FALSE, err |-> kind, v |-> <<>>]

\* BlockMetadata::load: the block list of the column's metadata file, or an
\* empty list when the file does not exist
BlockMetadata_load(db, column_name) ==
    IF column_name \in DOMAIN db.disk.metadata
    THEN db.disk.metadata[column_name]
    ELSE <<>>

\* BlockMetadata::save
BlockMetadata_save(db, column_name, blocks) ==
    [db EXCEPT !.disk.metadata = Put(@, column_name, blocks)]

\* ColumnStore::new: loads the metadata and creates the column file if absent
ColumnStore_new(db, column) ==
    Done([db EXCEPT !.disk.columns =
                 IF column.name \in DOMAIN @ THEN @ ELSE Put(@, column.name, <<>>)],
         [column |-> column, blocks |-> BlockMetadata_load(db, column.name)])

\* BlockMetadata::add_block followed by the store's update, for the column
\* store of column c of table t
add_block(db, t, c, min, max, offset, row_count, compression, serialized_size) ==
    LET store == db.columns[t][c]
    IN  IF min.t # store.column.data_type \/ max.t # store.column.data_type
        THEN Fail(db, "TypeMismatch")
        ELSE LET blocks == Append(store.blocks,
                                  [offset |-> offset, row_count |-> row_count,
                                   min |-> min, max |-> max,
                                   compression |-> compression,
                                   serialized_size |-> serialized_size])
             IN  Done(BlockMetadata_save(
                          [db EXCEPT !.columns[t][c].blocks = blocks], c, blocks),
                      offset)

\* the end of ColumnStore::append, given the bytes compress returned
AppendSerialized(db, t, c, values, compression, serialized) ==
    IF ~serialized.ok THEN Fail(db, serialized.err)
    ELSE IF c \notin DOMAIN db.disk.columns THEN Fail(db, "IoError")
    ELSE add_block([db EXCEPT !.disk.columns[c] = @ \o serialized.v], t, c,
                   MinValue(values), MaxValue(values), Len(db.disk.columns[c]),
                   Len(values), compression, Len(serialized.v))

\* ColumnStore::append on the column store of column c of table t
ColumnStore_append(db, t, c, values, compression) ==
    IF \E i \in 1..Len(values) : values[i].t # db.columns[t][c].column.data_type
    THEN Fail(db, "TypeMismatch")
    ELSE IF ~Block_new(values, compression).ok THEN Fail(db, "InvalidData")
    ELSE AppendSerialized(db, t, c, values, compression,
                          compress(values, compression))

\* ColumnStore::read_block
read_block(db, store, block_info) ==
    IF store.column.name \notin DOMAIN db.disk.columns THEN Err("IoError", <<>>)
    ELSE LET file == db.disk.columns[store.column.name]
         IN  IF block_info.offset + block_info.serialized_size > Len(file)
             THEN Err("IoError", <<>>)
             ELSE Block_deserialize(
                      SubSeq(file, block_info.offset + 1,
                             block_info.offset + block_info.serialized_size),
                      store.column.data_type, block_info.compression)

\* the values ColumnStore::read takes from one block: a block that fails to
\* read is logged and skipped
BlockValues(block) == IF block.ok THEN block.v ELSE <<>>

\* the loop of ColumnStore::read over the blocks that get_blocks returned
ReadBlocks(db, store, blocks) ==
    ConcatAll([i \in 1..Len(blocks) |-> BlockValues(read_block(db, store, blocks[i]))])

\* ColumnStore::read: the values of the surviving blocks, in block order
ColumnStore_read(db, store, condition) ==
    ReadBlocks(db, store, get_blocks(store.blocks, store.column.name, condition))

\* a clear that truncates the column file and leaves the block list
ColumnStore_clear_file_only(db, t, c) ==
    [db EXCEPT !.disk.columns = Put(@, c, <<>>)]

\* ColumnStore::clear
ColumnStore_clear(db, t, c) ==
    [BlockMetadata_save([db EXCEPT !.columns[t][c].blocks = <<>>], c, <<>>)
        EXCEPT !.disk.columns = Put(@, c, <<>>)]

(***************************************************************************)
(* Secondary index (storage/index.rs).                                     *)
(***************************************************************************)
\* Index::save, for the index of column c of table t
Index_save(db, t, c) ==
    [db EXCEPT !.disk.indexes = Put(@, <<t, c>>, db.indexes[t][c].cache)]

\* Index::new: opens the index file, creating it when absent, and loads it
Index_new(db, t, c, dt) ==
    LET key == <<t, c>>
    IN  Done([db EXCEPT !.disk.indexes =
                     IF key \in DOMAIN @ THEN @ ELSE Put(@, key, EmptyMap)],
             [data_type |-> dt,
              cache |-> IF key \in DOMAIN db.disk.indexes
                        THEN db.disk.indexes[key] ELSE EmptyMap])

\* the loop of Index::append over the first k values
RECURSIVE IndexAppendLoop(_, _, _, _)
IndexAppendLoop(cache, values, k, block_offset) ==
    IF k = 0 THEN cache
    ELSE LET c0 == IndexAppendLoop(cache, values, k - 1, block_offset)
             v == values[k]
             offsets == IF v \in DOMAIN c0 THEN c0[v] ELSE <<>>
         IN  IF \E i \in 1..Len(offsets) : offsets[i] = block_offset
             THEN Put(c0, v, offsets)
             ELSE Put(c0, v, Append(offsets, block_offset))

\* Index::append on the index of column c of table t: the values before the
\* first one of another type are entered; the index is saved only when all
\* values have the index's type
Index_append(db, t, c, values, block_offset) ==
    LET index == db.indexes[t][c]
        bad == {i \in 1..Len(values) : values[i].t # index.data_type}
        n == IF bad = {} THEN Len(values)
             ELSE (CHOOSE i \in bad : \A j \in bad : i <= j) - 1
        db1 == [db EXCEPT !.indexes[t][c].cache =
                              IndexAppendLoop(@, values, n, block_offset)]
    IN  IF bad # {} THEN Fail(db1, "TypeMismatch")
        ELSE Done(Index_save(db1, t, c), <<>>)

\* Index::lookup
Index_lookup(index, value) ==
    IF value.t # index.data_type THEN Err("TypeMismatch", <<>>)
    ELSE Ok(IF value \in DOMAIN index.cache THEN index.cache[value] ELSE <<>>)

\* Index::clear: empties the map and persists the empty map
Index_clear(db, t, c) ==
    Index_save([db EXCEPT !.indexes[t][c].cache = EmptyMap], t, c)

(***************************************************************************)
(* Schema (schema/mod.rs).                                                 *)
(***************************************************************************)
\* Schema::new_schema
new_schema == EmptyMap

\* Schema::add_table
add_table(db, name, columns) ==
    IF name \in DOMAIN db.schema THEN Fail(db, "InvalidData")
    ELSE Done([db EXCEPT !.schema =
                   Put(@, name, [name |-> name, columns |-> columns, row_count |-> 0])],
              <<>>)

\* Schema::validate_row
validate_row(db, table, values) ==
    IF table \notin DOMAIN db.schema THEN Err("InvalidData", <<>>)
    ELSE LET table_def == db.schema[table]
         IN  IF Len(values) # Len(table_def.columns) THEN Err("InvalidData", <<>>)
             ELSE IF \E i \in 1..Len(values) :
                        values[i].t # table_def.columns[i].data_type
             THEN Err("InvalidData", <<>>)
             ELSE Ok(<<>>)

\* Schema::save
Schema_save(db) ==
    [db EXCEPT !.disk.schema_json = [exists |-> TRUE, tables |-> db.schema]]

\* Table::increment_row_count followed by the insertion of the changed
\* table into the schema
increment_row_count(db, table_name) ==
    [db EXCEPT !.schema[table_name].row_count = @ + 1]

\* Table::get_column: the first column of the table with the name
get_column(table_def, column) ==
    LET hits == {i \in 1..Len(table_def.columns) : table_def.columns[i].name = column}
    IN  IF hits = {} THEN Err("None", <<>>)
        ELSE Ok(table_def.columns[CHOOSE i \in hits : \A j \in hits : i <= j])

(***************************************************************************)
(* Storage manager (storage/mod.rs).                                       *)
(***************************************************************************)
max_rows_per_segment == 3

\* the compression chosen for a column on flush and on delete rewrite
CompressionFor(dt) == IF dt = "String" THEN "Dictionary" ELSE "Rle"

\* StorageManager::new on a schema: one column store per column of every
\* table, an index for every column named ID, no pending rows
StorageManager_new(disk, schema) ==
    LET names(t) == {schema[t].columns[i].name : i \in 1..Len(schema[t].columns)}
        all == UNION {names(t) : t \in DOMAIN schema}
        keys == {<<t, "ID">> : t \in {u \in DOMAIN schema : "ID" \in names(u)}}
        \* the column a name is left with after the inserts of the loop
        col(t, c) == LET hits == {i \in 1..Len(schema[t].columns) :
                                     schema[t].columns[i].name = c}
                     IN  schema[t].columns[CHOOSE i \in hits : \A j \in hits : j <= i]
    IN  [schema |-> schema,
         columns |-> [t \in DOMAIN schema |->
                        [c \in names(t) |->
                            [column |-> col(t, c),
                             blocks |-> IF c \in DOMAIN disk.metadata
                                        THEN disk.metadata[c] ELSE <<>>]]],
         indexes |-> [t \in DOMAIN schema |->
                        [c \in names(t) \cap {"ID"} |->
                            [data_type |-> col(t, c).data_type,
                             cache |-> IF <<t, c>> \in DOMAIN disk.indexes
                                       THEN disk.indexes[<<t, c>>] ELSE EmptyMap]]],
         pending_rows |-> EmptyMap,
         disk |-> [disk EXCEPT
                     !.columns = [c \in DOMAIN @ \cup all |->
                                    IF c \in DOMAIN @ THEN @[c] ELSE <<>>],
                     !.indexes = [k \in DOMAIN @ \cup keys |->
                                    IF k \in DOMAIN @ THEN @[k] ELSE EmptyMap]]]

\* create_table's turn for column col once its store and its index are
\* made: both are entered into the maps built so far
AddIndex(built, col, store, index) ==
    Done(index.db, [cols |-> Put(built.cols, col.name, store.v),
                    idx |-> Put(built.idx, col.name, index.v)])

\* create_table's turn for column col once its store is made: the columns
\* named ID and Name get an index
AddStore(built, table, col, store) ==
    IF col.name = "ID" \/ col.name = "Name"
    THEN AddIndex(built, col, store,
                  Index_new(store.db, table.name, col.name, col.data_type))
    ELSE Done(store.db, [cols |-> Put(built.cols, col.name, store.v),
                         idx |-> built.idx])

\* create_table's turn for column col, after the turns r stands for
AddColumn(r, table, col) == AddStore(r.v, table, col, ColumnStore_new(r.db, col))

\* the loop of create_table over the first k columns: r.db is the state,
\* r.v the column stores and indexes built so far
RECURSIVE CreateTableLoop(_, _, _)
CreateTableLoop(db, table, k) ==
    IF k = 0 THEN Done(db, [cols |-> EmptyMap, idx |-> EmptyMap])
    ELSE AddColumn(CreateTableLoop(db, table, k - 1), table, table.columns[k])

\* the end of create_table, given what the loop built: the maps are entered
\* under the table's name, then the schema is asked to add the table
RegisterTable(r, table) ==
    add_table([r.db EXCEPT !.columns = Put(@, table.name, r.v.cols),
                           !.indexes = Put(@, table.name, r.v.idx)],
              table.name, table.columns)

\* StorageManager::create_table
create_table(db, table) ==
    RegisterTable(CreateTableLoop(db, table, Len(table.columns)), table)

\* the loop of do_flush_pending_rows over the columns from position k on;
\* FlushColumn is its turn for column col with the pending values of col,
\* FlushAppended the turn after the append, FlushIndexed after the index
RECURSIVE FlushLoop(_, _, _, _, _)
FlushIndexed(x, table_name, table_def, table_pending, k) ==
    IF ~x.ok THEN x
    ELSE FlushLoop(x.db, table_name, table_def, table_pending, k + 1)

FlushAppended(a, table_name, table_def, table_pending, k, col, values) ==
    IF ~a.ok THEN a
    ELSE IF col.name \in DOMAIN a.db.indexes[table_name]
    THEN FlushIndexed(Index_append(a.db, table_name, col.name, values, a.v),
                      table_name, table_def, table_pending, k)
    ELSE FlushLoop(a.db, table_name, table_def, table_pending, k + 1)

FlushColumn(db, table_name, table_def, table_pending, k, col, values) ==
    IF col.name \notin DOMAIN db.columns[table_name] THEN Fail(db, "InvalidData")
    ELSE IF values = <<>>
    THEN FlushLoop(db, table_name, table_def, table_pending, k + 1)
    ELSE FlushAppended(ColumnStore_append(db, table_name, col.name, values,
                                          CompressionFor(col.data_type)),
                       table_name, table_def, table_pending, k, col, values)

FlushLoop(db, table_name, table_def, table_pending, k) ==
    IF k > Len(table_def.columns) THEN Done(db, <<>>)
    ELSE FlushColumn(db, table_name, table_def, table_pending, k,
                     table_def.columns[k],
                     IF table_def.columns[k].name \in DOMAIN table_pending
                     THEN table_pending[table_def.columns[k].name] ELSE <<>>)

\* a flush that leaves the pending rows of the table in place
do_flush_pending_rows_keeping(db, table_name, table_def) ==
    FlushLoop(db, table_name, table_def,
              IF table_name \in DOMAIN db.pending_rows
              THEN db.pending_rows[table_name] ELSE EmptyMap,
              1)

\* do_flush_pending_rows
do_flush_pending_rows(db, table_name, table_def) ==
    FlushLoop([db EXCEPT !.pending_rows = Remove(@, table_name)],
              table_name, table_def,
              IF table_name \in DOMAIN db.pending_rows
              THEN db.pending_rows[table_name] ELSE EmptyMap,
              1)

\* the names of a table definition's columns (distinct within a table)
ColumnNames(table_def) ==
    {table_def.columns[i].name : i \in 1..Len(table_def.columns)}

\* the buffering step of insert_row: every value is pushed onto the pending
\* list of the column at its position
BufferRow(db, table_name, table_def, row) ==
    LET old == IF table_name \in DOMAIN db.pending_rows
               THEN db.pending_rows[table_name] ELSE EmptyMap
        pos(c) == CHOOSE i \in 1..Len(row) : table_def.columns[i].name = c
    IN  [db EXCEPT !.pending_rows =
            Put(@, table_name,
                [c \in DOMAIN old \cup ColumnNames(table_def) |->
                    (IF c \in DOMAIN old THEN old[c] ELSE <<>>)
                      \o (IF c \in ColumnNames(table_def) THEN <<row[pos(c)]>>
                          ELSE <<>>)])]

\* the length of the first pending list of the table (all have one length)
PendingLen(db, table_name) ==
    LET p == db.pending_rows[table_name]
    IN  IF DOMAIN p = {} THEN 0 ELSE Len(p[CHOOSE c \in DOMAIN p : TRUE])

\* the end of insert_row, given the outcome of the flush: the row count is
\* incremented and the schema saved
InsertFlushed(flushed, table_name) ==
    IF ~flushed.ok THEN flushed
    ELSE Done(Schema_save(increment_row_count(flushed.db, table_name)), <<>>)

\* insert_row after the row is buffered: the pending rows are flushed when
\* the buffer is full
InsertBuffered(db1, table_name, table_def) ==
    InsertFlushed(IF PendingLen(db1, table_name) >= max_rows_per_segment
                  THEN IF table_name \notin DOMAIN db1.columns
                       THEN Fail(db1, "InvalidData")
                       ELSE do_flush_pending_rows(db1, table_name, table_def)
                  ELSE Done(db1, <<>>),
                  table_name)

\* insert_row after the lookup of the row's first value in the ID index
InsertChecked(db, table_name, table_def, row, existing) ==
    IF ~existing.ok THEN Fail(db, existing.err)
    ELSE IF existing.v # <<>> THEN Fail(db, "InvalidData")
    ELSE InsertBuffered(BufferRow(db, table_name, table_def, row),
                        table_name, table_def)

\* insert_row after validate_row
InsertValidated(db, table_name, row, valid) ==
    IF ~valid.ok THEN Fail(db, valid.err)
    ELSE IF table_name \notin DOMAIN db.indexes THEN Fail(db, "InvalidData")
    ELSE InsertChecked(db, table_name, db.schema[table_name], row,
                       IF "ID" \in DOMAIN db.indexes[table_name]
                       THEN Index_lookup(db.indexes[table_name]["ID"], row[1])
                       ELSE Ok(<<>>))

\* an insert_row that counts the row before it knows whether it is accepted
insert_row_counting_first(db, table_name, row) ==
    IF table_name \notin DOMAIN db.schema THEN Fail(db, "InvalidData")
    ELSE InsertValidated(increment_row_count(db, table_name), table_name, row,
                         validate_row(db, table_name, row))

\* StorageManager::insert_row
insert_row(db, table_name, row) ==
    IF table_name \notin DOMAIN db.schema THEN Fail(db, "InvalidData")
    ELSE InsertValidated(db, table_name, row, validate_row(db, table_name, row))

\* StorageManager::read_column: the surviving blocks' values followed by the
\* pending values, as a run list
read_column(db, table_name, column_name, condition) ==
    IF table_name \notin DOMAIN db.columns
         \/ column_name \notin DOMAIN db.columns[table_name]
    THEN Err("InvalidData", <<>>)
    ELSE Ok(ColumnStore_read(db, db.columns[table_name][column_name], condition)
            \o (IF table_name \in DOMAIN db.pending_rows
                     /\ column_name \in DOMAIN db.pending_rows[table_name]
                THEN AsRuns(db.pending_rows[table_name][column_name])
                ELSE <<>>))

\* one turn of the loop below for row i, given the indices kept before it
\* and the outcome of the condition on it
KeepStep(rest, e, i) ==
    IF ~rest.ok THEN rest
    ELSE IF ~e.ok THEN Err(e.err, <<>>)
    ELSE IF e.v THEN rest
    ELSE Ok(Append(rest.v, i))

\* the rows 0 .. n-1 that the condition does not select, in ascending order
RECURSIVE KeepIndices(_, _, _)
KeepIndices(cond, column_values, n) ==
    IF n = 0 THEN Ok(<<>>)
    ELSE KeepStep(KeepIndices(cond, column_values, n - 1),
                  evaluate_condition_row(cond, column_values, n - 1), n - 1)

\* the smallest length among the run lists of a map of columns
\* (usize::MAX, written -1, when the map is empty)
MinRowCount(column_values) ==
    IF DOMAIN column_values = {} THEN -1
    ELSE LET lens == {RunsLen(column_values[c]) : c \in DOMAIN column_values}
         IN  CHOOSE n \in lens : \A m \in lens : n <= m

\* the turn of the loop below for column c once its store is cleared
ClearColumn(db1, table_name, c) ==
    IF c \in DOMAIN db1.indexes[table_name] THEN Index_clear(db1, table_name, c)
    ELSE db1

\* the branch of delete_rows without a condition, over the columns from k on
RECURSIVE ClearLoop(_, _, _, _)
ClearLoop(db, table_name, columns, k) ==
    IF k > Len(columns) THEN db
    ELSE ClearLoop(ClearColumn(ColumnStore_clear(db, table_name, columns[k].name),
                               table_name, columns[k].name),
                   table_name, columns, k + 1)

\* the kept indices that lie within the values of a column
KeptIndices(values, keep_indices) ==
    SelectSeq(keep_indices, LAMBDA i : i < RunsLen(values))

\* the values of a column at the kept indices
FilteredValues(values, kept) == [j \in 1..Len(kept) |-> RunsAt(values, kept[j])]

\* the rewrite loop of delete_rows with a condition, over the columns from k
\* on.  RewriteFiltered is its turn for column col once the store is cleared,
\* RewriteAppended the turn after the kept values are appended,
\* RewriteCleared after the index is cleared, RewriteIndexed after the index
\* is filled again
RECURSIVE RewriteLoop(_, _, _, _, _, _)
RewriteIndexed(x, table_name, columns, column_values, keep_indices, k) ==
    IF ~x.ok THEN x
    ELSE RewriteLoop(x.db, table_name, columns, column_values, keep_indices, k + 1)

RewriteCleared(db2, table_name, columns, column_values, keep_indices, k, col, filtered_values) ==
    RewriteIndexed(IF filtered_values # <<>>
                   THEN Index_append(db2, table_name, col.name, filtered_values, 0)
                   ELSE Done(db2, <<>>),
                   table_name, columns, column_values, keep_indices, k)

RewriteAppended(a, table_name, columns, column_values, keep_indices, k, col, filtered_values) ==
    IF ~a.ok THEN a
    ELSE IF col.name \in DOMAIN a.db.indexes[table_name]
    THEN RewriteCleared(Index_clear(a.db, table_name, col.name), table_name,
                        columns, column_values, keep_indices, k, col,
                        filtered_values)
    ELSE RewriteLoop(a.db, table_name, columns, column_values, keep_indices, k + 1)

RewriteFiltered(db1, table_name, columns, column_values, keep_indices, k, col, filtered_values) ==
    RewriteAppended(IF filtered_values # <<>>
                    THEN ColumnStore_append(db1, table_name, col.name,
                                            filtered_values,
                                            CompressionFor(col.data_type))
                    ELSE Done(db1, <<>>),
                    table_name, columns, column_values, keep_indices, k, col,
                    filtered_values)

RewriteLoop(db, table_name, columns, column_values, keep_indices, k) ==
    IF k > Len(columns) THEN Done(db, <<>>)
    ELSE RewriteFiltered(ColumnStore_clear(db, table_name, columns[k].name),
                         table_name, columns, column_values, keep_indices, k,
                         columns[k],
                         FilteredValues(column_values[columns[k].name],
                                        KeptIndices(column_values[columns[k].name],
                                                    keep_indices)))

\* the end of delete_rows with a condition, given the outcome of the rewrite
DeleteRewritten(r, table_name, keep_indices) ==
    IF ~r.ok THEN r
    ELSE Done(Schema_save([r.db EXCEPT
                             !.pending_rows = Remove(@, table_name),
                             !.schema[table_name].row_count = Len(keep_indices)]),
              <<>>)

\* delete_rows with a condition once the kept indices are computed
DeleteKept(db, table_name, columns, column_values, keep) ==
    IF ~keep.ok THEN Fail(db, keep.err)
    ELSE DeleteRewritten(RewriteLoop(db, table_name, columns, column_values,
                                     keep.v, 1),
                         table_name, keep.v)

\* the end of delete_rows without a condition, given the cleared state
DeleteAll(db1, table_name) ==
    Done(Schema_save([db1 EXCEPT !.pending_rows = Remove(@, table_name),
                                 !.schema[table_name].row_count = 0]),
         <<>>)

\* delete_rows once the columns are read
DeleteRead(db, table_name, condition, columns, column_values) ==
    IF table_name \notin DOMAIN db.indexes THEN Fail(db, "InvalidData")
    ELSE IF condition.op = "None"
    THEN DeleteAll(ClearLoop(db, table_name, columns, 1), table_name)
    ELSE DeleteKept(db, table_name, columns, column_values,
                    KeepIndices(condition, column_values,
                                MinRowCount(column_values)))

\* delete_rows on an existing table: the table's columns and the columns of
\* the condition are read without a condition
DeleteWanted(db, table_name, condition, wanted) ==
    IF ~(/\ table_name \in DOMAIN db.columns
         /\ wanted \subseteq DOMAIN db.columns[table_name])
    THEN Fail(db, "InvalidData")
    ELSE DeleteRead(db, table_name, condition, db.schema[table_name].columns,
                    [c \in wanted |-> read_column(db, table_name, c, NoCondition).v])

\* StorageManager::delete_rows
delete_rows(db, table_name, condition) ==
    IF table_name \notin DOMAIN db.schema THEN Fail(db, "InvalidData")
    ELSE DeleteWanted(db, table_name, condition,
                      IF condition.op = "None" THEN ColumnNames(db.schema[table_name])
                      ELSE ColumnNames(db.schema[table_name])
                             \cup collect_condition_columns(condition))

\* a function without the keys of a set
Without(m, keys) == [x \in DOMAIN m \ keys |-> m[x]]

\* drop_table once the column stores are removed with their files: the
\* indexes go with their files, then the metadata files of the schema's
\* columns, the pending rows and the schema entry; the schema is saved
DropIndexes(db1, table_name) ==
    IF table_name \notin DOMAIN db1.indexes THEN Fail(db1, "InvalidData")
    ELSE Done(Schema_save(
                [db1 EXCEPT
                   !.indexes = Remove(@, table_name),
                   !.disk.indexes =
                       Without(@, {<<table_name, c>> : c \in DOMAIN db1.indexes[table_name]}),
                   !.disk.metadata = Without(@, ColumnNames(db1.schema[table_name])),
                   !.pending_rows = Remove(@, table_name),
                   !.schema = Remove(@, table_name)]),
              <<>>)

\* StorageManager::drop_table
drop_table(db, table_name) ==
    IF table_name \notin DOMAIN db.schema THEN Fail(db, "InvalidData")
    ELSE IF table_name \notin DOMAIN db.columns THEN Fail(db, "InvalidData")
    ELSE DropIndexes([db EXCEPT
                        !.columns = Remove(@, table_name),
                        !.disk.columns = Without(@, DOMAIN db.columns[table_name])],
                     table_name)

(***************************************************************************)
(* Query engine (query/planner.rs).  A query is a record with a kind:      *)
(*   [kind |-> "Select", table, columns, condition]                        *)
(*   [kind |-> "SelectAggregate", table, aggregations, condition]          *)
(*   [kind |-> "Join", left_table, right_table, left_column, right_column, *)
(*    columns, condition]                                                  *)
(*   [kind |-> "Insert", table, values]                                    *)
(*   [kind |-> "CreateTable", table, columns]                              *)
(*   [kind |-> "Delete", table, condition]                                 *)
(* Every execution yields [db, ok, err, v] with v the result rows.         *)
(***************************************************************************)
\* one turn of the loop below, given the rows selected before it, the
\* outcome of the condition on the row and the projected row
SelectStep(rest, e, row) ==
    IF ~rest.ok THEN rest
    ELSE IF ~e.ok THEN Err(e.err, <<>>)
    ELSE IF e.v THEN Ok(Append(rest.v, row))
    ELSE rest

\* the rows 0 .. n-1 that the condition selects (all rows without a
\* condition), each projected onto columns, in ascending row order
RECURSIVE SelectRows(_, _, _, _)
SelectRows(columns, condition, column_values, n) ==
    IF n = 0 THEN Ok(<<>>)
    ELSE SelectStep(SelectRows(columns, condition, column_values, n - 1),
                    IF condition.op = "None" THEN Ok(TRUE)
                    ELSE evaluate_condition_row(condition, column_values, n - 1),
                    [k \in 1..Len(columns) |->
                        RunsAt(column_values[columns[k]], n - 1)])

\* the end of execute_select, given the outcome of the row loop
SelectResult(db, result) ==
    IF result.ok THEN Done(db, result.v) ELSE Fail(db, result.err)

\* execute_select once every required column is read
SelectRead(db, columns, condition, reads) ==
    IF \E c \in DOMAIN reads : ~reads[c].ok THEN Fail(db, "InvalidData")
    ELSE SelectResult(db, SelectRows(columns, condition,
                                     [c \in DOMAIN reads |-> reads[c].v],
                                     MinRowCount([c \in DOMAIN reads |-> reads[c].v])))

\* execute_select on an existing table: the requested columns and the
\* columns of the condition are read with the condition
SelectRequired(db, table, columns, condition, required_columns) ==
    IF ~(required_columns \subseteq ColumnNames(db.schema[table]))
    THEN Fail(db, "InvalidData")
    ELSE SelectRead(db, columns, condition,
                    [c \in required_columns |-> read_column(db, table, c, condition)])

\* a select that takes a table the schema lacks for an empty one
execute_select_lenient(db, table, columns, condition) ==
    IF table \notin DOMAIN db.schema THEN Done(db, <<>>)
    ELSE SelectRequired(db, table, columns, condition,
                        {columns[k] : k \in 1..Len(columns)}
                          \cup (IF condition.op = "None" THEN {}
                                ELSE collect_condition_columns(condition)))

\* QueryEngine::execute_select
execute_select(db, table, columns, condition) ==
    IF table \notin DOMAIN db.schema THEN Fail(db, "InvalidData")
    ELSE SelectRequired(db, table, columns, condition,
                        {columns[k] : k \in 1..Len(columns)}
                          \cup (IF condition.op = "None" THEN {}
                                ELSE collect_condition_columns(condition)))

\* an aggregation is [fn |-> "Count"] or [fn |-> f, col |-> c] with f one of
\* "Sum", "Avg", "Min", "Max"
Count == [fn |-> "Count"]

Sum(col) == [fn |-> "Sum", col |-> col]

Avg(col) == [fn |-> "Avg", col |-> col]

Min(col) == [fn |-> "Min", col |-> col]

Max(col) == [fn |-> "Max", col |-> col]

\* the column an aggregation reads: Count reads the column named ID
AggColumn(agg) == IF agg.fn = "Count" THEN "ID" ELSE agg.col

\* the fold of Sum and Avg from Float32(0.0) over a run list: a Float32 is
\* added, an Int32 is added as f32, any other value leaves the sum as it
\* is; a run adds its value as often as it counts (the sums stay below
\* 2^24 ones, where the f32 sum of whole numbers is exact)
RECURSIVE FoldSum(_, _)
FoldSum(values, k) ==
    IF k = 0 THEN 0
    ELSE FoldSum(values, k - 1)
           + values[k].cnt
               * (IF values[k].val.t = "Float32" THEN values[k].val.n
                  ELSE IF values[k].val.t = "Int32" THEN values[k].val.n * FloatUnit
                  ELSE 0)

\* the result of one aggregation over the run list read for its column
\* (the quotient of Avg is cut to a whole number of parts)
AggregateValue(agg, col_def, values) ==
    IF agg.fn = "Count" THEN Ok(Int32(RunsLen(values)))
    ELSE IF agg.fn \in {"Sum", "Avg"}
    THEN IF col_def.data_type \notin {"Float32", "Int32"}
         THEN Err("InvalidData", <<>>)
         ELSE IF agg.fn = "Sum" THEN Ok(Float32(FoldSum(values, Len(values))))
         ELSE IF RunsLen(values) > 0
         THEN Ok(Float32(FoldSum(values, Len(values)) \div RunsLen(values)))
         ELSE Ok(Float32(0))
    ELSE IF values = <<>> THEN Ok(Float32(0))
    ELSE IF agg.fn = "Min" THEN Ok(MinValue(RunValues(values)))
    ELSE Ok(MaxValue(RunValues(values)))

\* the results with the result of one more aggregation
AggPush(rest, result) ==
    IF result.ok THEN Ok(Append(rest.v, result.v)) ELSE result

\* one turn of the loop of execute_aggregate, given the results before it,
\* the column looked up in the table definition and the column as read
AggStep(rest, agg, col_def, values) ==
    IF ~rest.ok THEN rest
    ELSE IF ~col_def.ok THEN Err("InvalidData", <<>>)
    ELSE IF ~values.ok THEN Err(values.err, <<>>)
    ELSE AggPush(rest, AggregateValue(agg, col_def.v, values.v))

RECURSIVE AggregateLoop(_, _, _, _, _)
AggregateLoop(db, table, aggregations, condition, k) ==
    IF k = 0 THEN Ok(<<>>)
    ELSE AggStep(AggregateLoop(db, table, aggregations, condition, k - 1),
                 aggregations[k],
                 get_column(db.schema[table], AggColumn(aggregations[k])),
                 read_column(db, table, AggColumn(aggregations[k]), condition))

\* the end of execute_aggregate: the results make the single row returned
AggResult(db, results) ==
    IF results.ok THEN Done(db, <<results.v>>) ELSE Fail(db, results.err)

\* QueryEngine::execute_aggregate
execute_aggregate(db, table, aggregations, condition) ==
    IF table \notin DOMAIN db.schema THEN Fail(db, "InvalidData")
    ELSE AggResult(db, AggregateLoop(db, table, aggregations, condition,
                                     Len(aggregations)))

\* a projected column name of a Join, as Rust's str methods see it:
\* contains('.'), the first two parts of split('.'), starts_with
contains_dot(col) == \E i \in 1..Len(col) : SubSeq(col, i, i) = "."

\* the text before the first dot of a text that has one, and the text after
BeforeDot(col) ==
    SubSeq(col, 1, (CHOOSE i \in 1..Len(col) :
                      /\ SubSeq(col, i, i) = "."
                      /\ \A m \in 1..(i - 1) : SubSeq(col, m, m) # ".") - 1)

AfterDot(col) == SubSeq(col, Len(BeforeDot(col)) + 2, Len(col))

\* parts[1] of split('.'), given the text after the first dot
SecondPart(rest) == IF contains_dot(rest) THEN BeforeDot(rest) ELSE rest

starts_with(col, prefix) ==
    Len(prefix) <= Len(col) /\ SubSeq(col, 1, Len(prefix)) = prefix

\* the table and the column a projected name of a Join is read from
JoinSource(col, left_table) ==
    IF contains_dot(col)
    THEN [table |-> BeforeDot(col), col |-> SecondPart(AfterDot(col))]
    ELSE [table |-> left_table, col |-> col]

\* the smallest length among the run lists of the named columns
\* (usize::MAX, written -1, when there is none)
JoinMin(column_values, names) ==
    IF names = {} THEN -1
    ELSE LET lens == {RunsLen(column_values[c]) : c \in names}
         IN  CHOOSE n \in lens : \A m \in lens : n <= m

\* the number of items iter().take(n) yields from len items
Take(len, n) == IF n = -1 \/ len < n THEN len ELSE n

\* the row a Join emits for the pair (i, j): a column whose name starts with
\* the right table's name is indexed by j, any other by i
JoinRow(columns, right_table, column_values, i, j) ==
    LET index(k) == IF starts_with(columns[k], right_table) THEN j ELSE i
    IN  IF \E k \in 1..Len(columns) : index(k) >= RunsLen(column_values[columns[k]])
        THEN Err("InvalidData", <<>>)
        ELSE Ok([k \in 1..Len(columns) |-> RunsAt(column_values[columns[k]], index(k))])

\* one turn of the nested loops of execute_join, given the rows emitted
\* before it, whether the keys of the pair are equal, and the pair's row
JoinStep(rest, equal, row) ==
    IF ~rest.ok \/ ~equal THEN rest
    ELSE IF ~row.ok THEN row
    ELSE Ok(Append(rest.v, row.v))

\* the nested loops over the first p pairs (i, j), i over the first nl left
\* keys and, within it, j over the first nr right keys
RECURSIVE JoinLoop(_, _, _, _, _, _, _)
JoinLoop(columns, right_table, column_values, left_values, right_values, nr, p) ==
    IF p = 0 THEN Ok(<<>>)
    ELSE JoinStep(JoinLoop(columns, right_table, column_values,
                           left_values, right_values, nr, p - 1),
                  RunsAt(left_values, (p - 1) \div nr) = RunsAt(right_values, (p - 1) % nr),
                  JoinRow(columns, right_table, column_values,
                          (p - 1) \div nr, (p - 1) % nr))

\* execute_join once the projected columns are read
JoinColumns(db, query, left_values, right_values, column_values, nl, nr) ==
    SelectResult(db, JoinLoop(query.columns, query.right_table, column_values,
                              left_values, right_values, nr, nl * nr))

\* execute_join once the key columns are read: every projected column is
\* read from its table; those of the right table bound the right rows, all
\* others the left rows
JoinKeys(db, query, left_values, right_values, names, reads) ==
    IF \E c \in names : ~reads[c].ok THEN Fail(db, "InvalidData")
    ELSE JoinColumns(db, query, left_values, right_values,
                     [c \in names |-> reads[c].v],
                     Take(RunsLen(left_values),
                          JoinMin([c \in names |-> reads[c].v],
                                  {c \in names :
                                     JoinSource(c, query.left_table).table
                                       # query.right_table})),
                     Take(RunsLen(right_values),
                          JoinMin([c \in names |-> reads[c].v],
                                  {c \in names :
                                     JoinSource(c, query.left_table).table
                                       = query.right_table})))

\* the read of a projected column of a Join
JoinRead(db, query, c) ==
    read_column(db, JoinSource(c, query.left_table).table,
                JoinSource(c, query.left_table).col, query.condition)

\* execute_join, given the key columns as read
JoinKeyed(db, query, left, right) ==
    IF ~left.ok \/ ~right.ok THEN Fail(db, "InvalidData")
    ELSE JoinKeys(db, query, left.v, right.v,
                  {query.columns[k] : k \in 1..Len(query.columns)},
                  [c \in {query.columns[k] : k \in 1..Len(query.columns)} |->
                      JoinRead(db, query, c)])

\* QueryEngine::execute_join
execute_join(db, query) ==
    JoinKeyed(db, query,
              read_column(db, query.left_table, query.left_column, query.condition),
              read_column(db, query.right_table, query.right_column, query.condition))

\* the state with index entered for column c of table t
WithIndex(db, t, c, index) ==
    [db EXCEPT !.indexes = Put(@, t, Put(IF t \in DOMAIN @ THEN @[t] ELSE EmptyMap,
                                         c, index))]

\* the MakeIndex branch of execute.  MakeIndexFilled is its end, given the
\* outcome of filling the new index: the index is entered into the table's
\* map; MakeIndexOpened is the branch once the index file is opened and the
\* column is read; MakeIndexColumn the branch once the column is looked up
MakeIndexFilled(db, table, filled) ==
    IF ~filled.ok THEN Fail([filled.db EXCEPT !.indexes = db.indexes], filled.err)
    ELSE IF table \notin DOMAIN db.indexes
    THEN Fail([filled.db EXCEPT !.indexes = db.indexes], "InvalidData")
    ELSE Done(filled.db, <<>>)

MakeIndexOpened(db, table, column, index, values) ==
    IF ~values.ok THEN Fail(index.db, values.err)
    ELSE MakeIndexFilled(db, table,
             IF RunsLen(values.v) > 0
             THEN Index_append(WithIndex(index.db, table, column, index.v),
                               table, column, RunValues(values.v), 0)
             ELSE Done(WithIndex(index.db, table, column, index.v), <<>>))

MakeIndexColumn(db, table, column, col_def) ==
    IF ~col_def.ok THEN Fail(db, "InvalidData")
    ELSE MakeIndexOpened(db, table, column,
                         Index_new(db, table, column, col_def.v.data_type),
                         read_column(db, table, column, NoCondition))

execute_make_index(db, table, column) ==
    IF table \notin DOMAIN db.schema THEN Fail(db, "InvalidData")
    ELSE MakeIndexColumn(db, table, column, get_column(db.schema[table], column))

\* the DropIndex branch of execute: the index leaves the table's map, is
\* cleared, and its file is removed
execute_drop_index(db, table, column) ==
    IF table \notin DOMAIN db.indexes THEN Fail(db, "InvalidData")
    ELSE IF column \notin DOMAIN db.indexes[table] THEN Fail(db, "InvalidData")
    ELSE Done([db EXCEPT !.indexes[table] = Remove(@, column),
                         !.disk.indexes = Remove(@, <<table, column>>)],
              <<>>)

\* QueryEngine::execute
execute(db, query) ==
    IF query.kind = "Select"
    THEN IF query.columns = <<>> /\ query.table \notin DOMAIN db.schema
         THEN Fail(db, "InvalidData")
         ELSE execute_select(db, query.table,
                             IF query.columns = <<>>
                             THEN [k \in 1..Len(db.schema[query.table].columns) |->
                                      db.schema[query.table].columns[k].name]
                             ELSE query.columns,
                             query.condition)
    ELSE IF query.kind = "SelectAggregate"
    THEN execute_aggregate(db, query.table, query.aggregations, query.condition)
    ELSE IF query.kind = "Join"
    THEN execute_join(db, query)
    ELSE IF query.kind = "Insert"
    THEN insert_row(db, query.table, query.values)
    ELSE IF query.kind = "CreateTable"
    THEN create_table(db, [name |-> query.table, columns |-> query.columns,
                           row_count |-> 0])
    ELSE IF query.kind = "Delete"
    THEN delete_rows(db, query.table, query.condition)
    ELSE IF query.kind = "DropTable"
    THEN drop_table(db, query.table)
    ELSE IF query.kind = "MakeIndex"
    THEN execute_make_index(db, query.table, query.column)
    ELSE IF query.kind = "DropIndex"
    THEN execute_drop_index(db, query.table, query.column)
    ELSE Done(db, <<>>)

(***************************************************************************)
(* Transaction manager (transaction/mod.rs).  A transaction is             *)
(* [id, queries]; the WAL is the sequence of the serialized transaction    *)
(* records it holds, each kept as the id of its transaction (every record  *)
(* has a positive length, and no code reads a record back).                *)
(***************************************************************************)
\* the loop of commit_transaction: the queries are executed in order up to
\* the first error; r.v is the concatenation of the results
\* (ExecuteNext is one turn of it, ExecuteDone the turn once the query ran;
\* ExecuteDone_last_rows is a turn that returns the rows of the last query
\* only)
ExecuteDone_last_rows(r, q) == IF ~q.ok THEN q ELSE Done(q.db, q.v)

ExecuteDone(r, q) == IF ~q.ok THEN q ELSE Done(q.db, r.v \o q.v)

ExecuteNext(r, query) == IF ~r.ok THEN r ELSE ExecuteDone(r, execute(r.db, query))

RECURSIVE ExecuteAll(_, _, _)
ExecuteAll(db, queries, k) ==
    IF k = 0 THEN Done(db, <<>>)
    ELSE ExecuteNext(ExecuteAll(db, queries, k - 1), queries[k])

\* a begin_transaction that hands out the id and keeps it as the next one
begin_transaction_same_id(next) ==
    [tx |-> [active |-> TRUE, id |-> next, queries |-> <<>>], next_tx_id |-> next]

\* TransactionManager::begin_transaction: the new transaction and the next id
begin_transaction(next) ==
    [tx |-> [active |-> TRUE, id |-> next, queries |-> <<>>], next_tx_id |-> next + 1]

\* Transaction::add_query
add_query(t, query) == [t EXCEPT !.queries = Append(@, query)]

\* a commit that truncates the WAL also when a query failed
CommitExecuted_truncating(logged, r) ==
    IF r.ok THEN [db |-> r.db, wal |-> <<>>, ok |-> TRUE, err |-> "", v |-> r.v]
    ELSE [db |-> r.db, wal |-> <<>>, ok |-> FALSE, err |-> r.err, v |-> <<>>]

\* the end of commit_transaction, given the WAL with the record appended
\* and the outcome of the queries
CommitExecuted(logged, r) ==
    IF r.ok THEN [db |-> r.db, wal |-> <<>>, ok |-> TRUE, err |-> "", v |-> r.v]
    ELSE [db |-> r.db, wal |-> logged, ok |-> FALSE, err |-> r.err, v |-> <<>>]

\* TransactionManager::commit_transaction: the record is appended to the WAL,
\* the queries are executed in order, and only when all of them succeeded is
\* the WAL truncated; the first error is returned as it is
commit_transaction(db, w, t) ==
    CommitExecuted(Append(w, t.id), ExecuteAll(db, t.queries, Len(t.queries)))

\* a rollback that runs the queries of the transaction before it truncates
\* the WAL
rollback_transaction_applied(db, w, t) ==
    [db |-> ExecuteAll(db, t.queries, Len(t.queries)).db, wal |-> <<>>,
     ok |-> TRUE, err |-> "", v |-> <<>>]

\* TransactionManager::rollback_transaction: the WAL is truncated, the
\* transaction is dropped, nothing else is touched
rollback_transaction(db, w, t) ==
    [db |-> db, wal |-> <<>>, ok |-> TRUE, err |-> "", v |-> <<>>]

(***************************************************************************)
(* State.                                                                  *)
(***************************************************************************)
VARIABLES
    schema,        \* StorageManager.schema
    columns,       \* StorageManager.columns
    indexes,       \* StorageManager.indexes
    pending_rows,  \* StorageManager.pending_rows
    disk,          \* the files of the data directory
    wal,           \* the records in <data_dir>/wal/wal.log
    next_tx_id,    \* TransactionManager.next_tx_id
    tx,            \* the transaction the caller is building, if any
    last,          \* the last call and what it returned
    history,       \* per created table: its columns and the rows inserted
                   \* and not deleted, in insertion order
    buffer,        \* StorageManager.buffer: the cache and the recency queue
    mutex,         \* the holder of the Mutex<StorageManager>, 0 when free
    threads,       \* per thread: the call of execute it is in and its position
    running        \* whether the loop of Repl::run is running

storage == <<schema, columns, indexes, pending_rows, disk>>

vars == <<schema, columns, indexes, pending_rows, disk, wal, next_tx_id, tx,
          last, history, buffer, mutex, threads, running>>

\* the buffer manager, the lock with the threads that take it, and the loop
\* of the REPL: the parts of the state that the calls on the storage and on
\* the transaction manager leave alone
apart == <<buffer, mutex, threads, running>>

\* the database state as one record, and its assignment to the next state
DB == [schema |-> schema, columns |-> columns, indexes |-> indexes,
       pending_rows |-> pending_rows, disk |-> disk]

SetDB(db) ==
    /\ schema' = db.schema
    /\ columns' = db.columns
    /\ indexes' = db.indexes
    /\ pending_rows' = db.pending_rows
    /\ disk' = db.disk

(***************************************************************************)
(* Bounds and inputs.                                                      *)
(***************************************************************************)
\* an Insert is issued only on a table that holds, and was meant to hold,
\* fewer rows than this
MaxRowCount == 4

\* the longest batch a transaction collects
MaxBatch == 2

\* transactions are begun while next_tx_id is at most this
MaxTxId == 3

\* a commit is issued only while the WAL holds fewer records than this
MaxWal == 1

\* the rows a table holds at most in the behaviours that drop tables
MaxDdlRows == 3

\* the tables that are created, and those that are also written and read
TableNames == {"Emp", "Dept"}

Populated == {"Emp"}

EmpColumns == <<[name |-> "ID", data_type |-> "Int32"],
                [name |-> "Name", data_type |-> "String"]>>

Shapes == {EmpColumns}

\* the strings "a" and "b" as UTF-8 bytes
StrA == String(<<97>>)

StrB == String(<<98>>)

\* rows offered to Insert: two that fit the shape, one with a value of the
\* wrong type, one with the wrong number of values
GoodRows == {<<Int32(0), StrA>>, <<Int32(1), StrB>>}

BadTypeRow == <<StrA, StrB>>

ShortRow == <<Int32(1)>>

RowInputs == GoodRows \cup {BadTypeRow, ShortRow}

\* conditions offered to Select and Delete
Conditions ==
    {Equal("ID", Int32(1)),
     LessThan("Name", StrB),
     And(GreaterThan("ID", Int32(0)), Equal("Name", StrB)),
     Or(Equal("ID", Int32(0)), GreaterThan("ID", Int32(0)))}

\* queries offered to a transaction
TxQueries ==
    {[kind |-> "CreateTable", table |-> "Emp", columns |-> EmpColumns],
     [kind |-> "Insert", table |-> "Emp", values |-> <<Int32(0), StrA>>],
     [kind |-> "Insert", table |-> "Emp", values |-> BadTypeRow],
     [kind |-> "Delete", table |-> "Emp", condition |-> NoCondition],
     [kind |-> "Select", table |-> "Emp", columns |-> <<>>, condition |-> NoCondition]}

\* projections offered to Select (the empty list is the parser's *)
Projections == {<<>>, <<"Name">>}

(***************************************************************************)
(* The intended content of the tables, kept beside the program's state:    *)
(* what the successful CreateTable, Insert and Delete calls add up to.     *)
(***************************************************************************)
\* the value of column col in a row laid out by table_columns
RowValue(table_columns, row, col) ==
    row[CHOOSE i \in 1..Len(table_columns) : table_columns[i].name = col]

\* whether a row satisfies a condition (Section 4.7: operator semantics
\* follow the Value order; a cross-type comparison fails)
RECURSIVE RowSatisfies(_, _, _)
RowSatisfies(cond, table_columns, row) ==
    IF IsLeaf(cond) THEN Compare(cond.op, RowValue(table_columns, row, cond.col), cond.val)
    ELSE IF cond.op = "And"
    THEN RowSatisfies(cond.l, table_columns, row) /\ RowSatisfies(cond.r, table_columns, row)
    ELSE RowSatisfies(cond.l, table_columns, row) \/ RowSatisfies(cond.r, table_columns, row)

\* the rows of a table of the history that a Delete with the condition keeps
Kept(table, condition) ==
    IF condition.op = "None" THEN <<>>
    ELSE SelectSeq(table.rows, LAMBDA r : ~RowSatisfies(condition, table.columns, r))

\* the history after a query that returned ok
Record(h, query, ok) ==
    IF ~ok THEN h
    ELSE IF query.kind = "CreateTable"
    THEN IF query.table \in DOMAIN h THEN h
         ELSE Put(h, query.table, [columns |-> query.columns, rows |-> <<>>, fresh |-> TRUE])
    ELSE IF query.kind = "Insert"
    THEN [h EXCEPT ![query.table].rows = Append(@, query.values)]
    ELSE IF query.kind = "Delete"
    THEN [h EXCEPT ![query.table] =
            [columns |-> @.columns,
             rows |-> Kept(@, query.condition),
             fresh |-> FALSE]]
    ELSE IF query.kind = "DropTable"
    THEN Remove(h, query.table)
    ELSE h

\* the history after the first k queries of a batch, each recorded with the
\* outcome it had
RecordNext(h, before, query) ==
    IF ~before.ok THEN h ELSE Record(h, query, execute(before.db, query).ok)

RECURSIVE RecordAll(_, _, _, _)
RecordAll(h, db, queries, k) ==
    IF k = 0 THEN h
    ELSE RecordNext(RecordAll(h, db, queries, k - 1),
                    ExecuteAll(db, queries, k - 1), queries[k])

\* the capacity StorageManager::new gives its buffer manager
BufferCapacity == 100000000

(***************************************************************************)
(* Initial state: create_database on an empty data directory.              *)
(***************************************************************************)
EmptyDisk == [schema_json |-> [exists |-> FALSE, tables |-> EmptyMap],
              metadata |-> EmptyMap, columns |-> EmptyMap, indexes |-> EmptyMap]

NoTx == [active |-> FALSE, id |-> 0, queries |-> <<>>]

\* create_database: a new (empty) schema, a storage manager on it, and a
\* transaction manager whose ids start at 1; the WAL file keeps its records
create_database(d) == StorageManager_new(d, new_schema)

(***************************************************************************)
(* BufferManager (storage/buffer.rs): cache maps a key (column name,       *)
(* offset) to a block, lru is the queue of the cached keys, the front the  *)
(* next to be evicted.                                                     *)
(***************************************************************************)
\* BufferManager::new
BufferManager_new(capacity) == [cache |-> EmptyMap, lru |-> <<>>, capacity |-> capacity]

\* an evict that takes the key at the back of the queue
evict_newest(bm) ==
    IF bm.lru = <<>> THEN bm
    ELSE [bm EXCEPT !.cache = Remove(@, bm.lru[Len(bm.lru)]),
                    !.lru = SubSeq(@, 1, Len(bm.lru) - 1)]

\* BufferManager::evict
evict(bm) ==
    IF bm.lru = <<>> THEN bm
    ELSE [bm EXCEPT !.cache = Remove(@, bm.lru[1]), !.lru = Tail(@)]

\* BufferManager::get_block for the block with the key, read being what
\* column.read_block returns for it when it is called
get_block(bm, key, read) ==
    IF key \in DOMAIN bm.cache
    THEN [bm |-> [bm EXCEPT !.lru = Append(SelectSeq(@, LAMBDA k : k # key), key)],
          ok |-> TRUE, err |-> "", v |-> bm.cache[key]]
    ELSE IF ~read.ok THEN [bm |-> bm, ok |-> FALSE, err |-> read.err, v |-> <<>>]
    ELSE LET room == IF Cardinality(DOMAIN bm.cache) >= bm.capacity
                     THEN evict(bm) ELSE bm
         IN  [bm |-> [room EXCEPT !.cache = Put(@, key, read.v),
                                  !.lru = Append(@, key)],
              ok |-> TRUE, err |-> "", v |-> read.v]

\* the threads that share the storage handle
Threads == {1, 2}

\* a thread that is in no call of execute
Idle == [pc |-> 0, plan |-> <<>>, guards |-> 0, query |-> [kind |-> "None"]]

\* the state beside the storage and the transaction manager at the start:
\* the buffer manager of StorageManager::new, the lock free, both threads
\* idle, the loop of the REPL running
InitApart ==
    /\ buffer = BufferManager_new(BufferCapacity)
    /\ mutex = 0
    /\ threads = [th \in Threads |-> Idle]
    /\ running = TRUE

Init ==
    /\ LET db == create_database(EmptyDisk)
       IN  /\ schema = db.schema
           /\ columns = db.columns
           /\ indexes = db.indexes
           /\ pending_rows = db.pending_rows
           /\ disk = db.disk
    /\ wal = <<>>
    /\ next_tx_id = 1
    /\ InitApart
    /\ tx = NoTx
    /\ last = [query |-> [kind |-> "Open"], ok |-> TRUE, err |-> "", v |-> <<>>]
    /\ history = EmptyMap

(***************************************************************************)
(* Actions: one call of QueryEngine.execute per query kind.                *)
(***************************************************************************)
\* QueryEngine.execute(query), called directly
\* the row_count of a table when a call is made (0 without the table)
RowsOf(t) == IF t \in DOMAIN schema THEN schema[t].row_count ELSE 0

\* the table of a query (of a Join, the left one)
QueryTable(query) == IF query.kind = "Join" THEN query.left_table ELSE query.table

\* the state after a call of execute that returned r; last keeps the query,
\* its outcome and the row_count its table had when the call was made
Returned(query, r) ==
    /\ SetDB(r.db)
    /\ last' = [query |-> query, ok |-> r.ok, err |-> r.err, v |-> r.v,
                rows |-> RowsOf(QueryTable(query))]
    /\ history' = Record(history, query, r.ok)
    /\ UNCHANGED <<wal, next_tx_id, tx>>
    /\ UNCHANGED apart

Run(query) == Returned(query, execute(DB, query))

CreateTable ==
    \E t \in TableNames, cols \in Shapes :
        /\ Run([kind |-> "CreateTable", table |-> t, columns |-> cols])

Insert ==
    \E t \in Populated, row \in RowInputs :
        /\ t \in DOMAIN schema => schema[t].row_count < MaxRowCount
        /\ t \in DOMAIN history => Len(history[t].rows) < MaxRowCount
        /\ Run([kind |-> "Insert", table |-> t, values |-> row])

Delete ==
    \E t \in Populated, cond \in Conditions \cup {NoCondition} :
        /\ Run([kind |-> "Delete", table |-> t, condition |-> cond])

Select ==
    \E t \in Populated, cols \in Projections, cond \in Conditions \cup {NoCondition} :
        /\ Run([kind |-> "Select", table |-> t, columns |-> cols, condition |-> cond])

Next == CreateTable \/ Insert \/ Delete \/ Select

Spec == Init /\ [][Next]_vars

(***************************************************************************)
(* Actions of a caller that works through the transaction manager, as the  *)
(* REPL does, and that may close the database and open it again.           *)
(***************************************************************************)
\* a call that is not a query, as it is kept in last: its kind, the number
\* of queries of the transaction it was given, and the number of records in
\* the WAL when it was made
Call(kind, t) == [kind |-> kind, queries |-> Len(t.queries), logged |-> Len(wal)]

Begin ==
    /\ ~tx.active
    /\ next_tx_id <= MaxTxId
    /\ LET b == begin_transaction(next_tx_id)
       IN  /\ tx' = b.tx
           /\ next_tx_id' = b.next_tx_id
           /\ UNCHANGED apart
           /\ last' = [query |-> Call("Begin", b.tx), ok |-> TRUE, err |-> "", v |-> <<>>]
    /\ UNCHANGED <<schema, columns, indexes, pending_rows, disk, wal, history>>

AddQuery ==
    /\ tx.active
    /\ Len(tx.queries) < MaxBatch
    /\ \E q \in TxQueries :
          /\ tx' = add_query(tx, q)
          /\ last' = [query |-> Call("AddQuery", tx'), ok |-> TRUE, err |-> "", v |-> <<>>]
    /\ UNCHANGED <<schema, columns, indexes, pending_rows, disk, wal, next_tx_id, history>>
    /\ UNCHANGED apart

\* the state after a call of the transaction manager that consumed the
\* transaction and returned r, h being the history after it
Consumed(kind, r, h) ==
    /\ SetDB(r.db)
    /\ wal' = r.wal
    /\ history' = h
    /\ last' = [query |-> Call(kind, tx), ok |-> r.ok, err |-> r.err, v |-> r.v]
    /\ tx' = NoTx
    /\ UNCHANGED next_tx_id
    /\ UNCHANGED apart

\* the commit is explored while the tables stay within MaxRowCount rows
Committed(r, h) ==
    /\ \A t \in DOMAIN h : Len(h[t].rows) <= MaxRowCount
    /\ \A t \in DOMAIN r.db.schema : r.db.schema[t].row_count <= MaxRowCount
    /\ Consumed("Commit", r, h)

Commit ==
    /\ tx.active
    /\ Len(wal) < MaxWal
    /\ Committed(commit_transaction(DB, wal, tx),
                 RecordAll(history, DB, tx.queries, Len(tx.queries)))

Rollback ==
    /\ tx.active
    /\ Consumed("Rollback", rollback_transaction(DB, wal, tx), history)

\* the process ends and create_database is called on the same directory
Reopen ==
    /\ ~tx.active
    /\ last.query.kind # "Reopen"
    /\ SetDB(create_database(disk))
    /\ next_tx_id' = 1
    /\ UNCHANGED apart
    /\ last' = [query |-> Call("Reopen", NoTx), ok |-> TRUE, err |-> "", v |-> <<>>]
    /\ UNCHANGED <<wal, tx, history>>

NextTx == Begin \/ AddQuery \/ Commit \/ Rollback \/ Reopen

SpecTx == Init /\ [][NextTx]_vars

(***************************************************************************)
(* commit_transaction step by step: the record is written to the WAL, the  *)
(* queries are executed one at a time, the WAL is truncated.  While a       *)
(* commit is under way tx also holds pos, the number of queries executed,   *)
(* and results, the rows returned so far.                                   *)
(***************************************************************************)
\* a write that leaves the WAL as it is
write_record_skipped(w, t) == w

\* commit_transaction, lines 59-61: the serialized record is written to the
\* WAL and the file is flushed
write_record(w, t) == Append(w, t.id)

Committing == tx.active /\ "pos" \in DOMAIN tx

\* the transaction within commit_transaction, pos queries executed
Running(t, pos, results) ==
    [active |-> TRUE, id |-> t.id, queries |-> t.queries, pos |-> pos,
     results |-> results]

\* the commit is explored while the tables stay within MaxRowCount rows
WithinBounds(r, h) ==
    /\ \A t \in DOMAIN h : Len(h[t].rows) <= MaxRowCount
    /\ \A t \in DOMAIN r.db.schema : r.db.schema[t].row_count <= MaxRowCount

CommitLog ==
    /\ tx.active
    /\ ~Committing
    /\ Len(wal) < MaxWal
    /\ WithinBounds(commit_transaction(DB, wal, tx),
                    RecordAll(history, DB, tx.queries, Len(tx.queries)))
    /\ wal' = write_record(wal, tx)
    /\ tx' = Running(tx, 0, <<>>)
    /\ last' = [query |-> Call("CommitLog", tx), ok |-> TRUE, err |-> "", v |-> <<>>]
    /\ UNCHANGED <<schema, columns, indexes, pending_rows, disk, next_tx_id, history>>
    /\ UNCHANGED apart

\* the turn of the loop of commit_transaction for query, which returned r:
\* an error ends the commit, the WAL is left as it is
QueryReturned(query, r) ==
    /\ SetDB(r.db)
    /\ history' = Record(history, query, r.ok)
    /\ tx' = IF r.ok THEN Running(tx, tx.pos + 1, tx.results \o r.v) ELSE NoTx
    /\ last' = [query |-> Call(IF r.ok THEN "CommitQuery" ELSE "Commit", tx),
                ok |-> r.ok, err |-> r.err, v |-> <<>>]
    /\ UNCHANGED <<wal, next_tx_id>>
    /\ UNCHANGED apart

CommitQuery ==
    /\ Committing
    /\ tx.pos < Len(tx.queries)
    /\ QueryReturned(tx.queries[tx.pos + 1], execute(DB, tx.queries[tx.pos + 1]))

CommitTruncate ==
    /\ Committing
    /\ tx.pos = Len(tx.queries)
    /\ wal' = <<>>
    /\ tx' = NoTx
    /\ last' = [query |-> Call("Commit", tx), ok |-> TRUE, err |-> "", v |-> tx.results]
    /\ UNCHANGED <<schema, columns, indexes, pending_rows, disk, next_tx_id, history>>
    /\ UNCHANGED apart

StepAddQuery == ~Committing /\ AddQuery

StepRollback == ~Committing /\ Rollback

NextStep ==
    \/ Begin \/ StepAddQuery \/ CommitLog \/ CommitQuery \/ CommitTruncate
    \/ StepRollback \/ Reopen

SpecStep == Init /\ [][NextStep]_vars

(***************************************************************************)
(* Actions of a caller that creates, indexes and drops tables, closing and *)
(* opening the database in between.  Table Emp has the columns of          *)
(* EmpColumns (ID and Name, indexed by create_table), table Dept those of  *)
(* DeptColumns (indexed only by MakeIndex).                                *)
(***************************************************************************)
DeptColumns == <<[name |-> "DeptID", data_type |-> "Int32"],
                 [name |-> "DeptName", data_type |-> "String"]>>

ShapeOf(t) == IF t = "Dept" THEN DeptColumns ELSE EmpColumns

\* the columns MakeIndex and DropIndex are called with (Dept has no Salary)
IndexColumns == {"DeptID", "Salary"}

\* the table that is given rows and indexes, and the row it is given
Indexed == {"Dept"}

DdlRows == {<<Int32(0), StrA>>}

DdlCreate ==
    \E t \in TableNames :
        /\ Run([kind |-> "CreateTable", table |-> t, columns |-> ShapeOf(t)])

DdlInsert ==
    \E t \in Indexed, row \in DdlRows :
        /\ t \in DOMAIN schema => schema[t].row_count < MaxDdlRows
        /\ t \in DOMAIN history => Len(history[t].rows) < MaxDdlRows
        /\ Run([kind |-> "Insert", table |-> t, values |-> row])

MakeIndex ==
    \E t \in Indexed, c \in IndexColumns :
        /\ Run([kind |-> "MakeIndex", table |-> t, column |-> c])

DropIndex ==
    \E t \in Indexed, c \in IndexColumns :
        /\ Run([kind |-> "DropIndex", table |-> t, column |-> c])

DropTable ==
    \E t \in TableNames :
        /\ Run([kind |-> "DropTable", table |-> t])

NextDdl == DdlCreate \/ DdlInsert \/ MakeIndex \/ DropIndex \/ DropTable \/ Reopen

SpecDdl == Init /\ [][NextDdl]_vars

(***************************************************************************)
(* Actions of a caller that selects from and aggregates over two tables:   *)
(* Emp(ID, Name), which it writes, and Dept, which it only creates.        *)
(***************************************************************************)
\* projections offered to Select: the parser's *, columns of Emp (which
\* Dept lacks), and a column neither table has
QueryProjections == {<<>>, <<"Name", "ID">>, <<"Salary">>}

\* conditions offered to Select, SelectAggregate and Delete (Dept may lack
\* the column ID)
QueryConditions == {NoCondition, Equal("ID", Int32(1))}

\* lists of aggregations offered to SelectAggregate
AggLists ==
    {<<Count, Sum("ID"), Avg("ID"), Min("ID"), Max("Name")>>,
     <<Max("ID"), Count, Min("Name")>>,
     <<Sum("DeptID"), Avg("DeptID"), Min("DeptID"), Max("DeptName")>>,
     <<Count>>,
     <<Sum("Name")>>}

\* the shapes a table is created with: Dept with its own columns, or with
\* columns named as those of Emp
QueryShapes(t) == IF t = "Dept" THEN {DeptColumns, EmpColumns} ELSE {EmpColumns}

\* a table is created, and created again, with one shape
QueryCreate ==
    \E t \in TableNames :
        \E cols \in QueryShapes(t) :
            /\ t \in DOMAIN history => cols = history[t].columns
            /\ Run([kind |-> "CreateTable", table |-> t, columns |-> cols])

QueryInsert ==
    \E t \in Populated, row \in GoodRows :
        /\ t \in DOMAIN schema => schema[t].row_count < MaxRowCount
        /\ t \in DOMAIN history => Len(history[t].rows) < MaxRowCount
        /\ Run([kind |-> "Insert", table |-> t, values |-> row])

QueryDelete ==
    \E t \in Populated, cond \in QueryConditions :
        /\ Run([kind |-> "Delete", table |-> t, condition |-> cond])

QuerySelect ==
    \E t \in TableNames, cols \in QueryProjections, cond \in QueryConditions :
        /\ Run([kind |-> "Select", table |-> t, columns |-> cols, condition |-> cond])

SelectAggregate ==
    \E t \in TableNames, aggs \in AggLists, cond \in QueryConditions :
        /\ Run([kind |-> "SelectAggregate", table |-> t, aggregations |-> aggs,
                condition |-> cond])

NextQuery == QueryCreate \/ QueryInsert \/ QueryDelete \/ QuerySelect \/ SelectAggregate

SpecQuery == Init /\ [][NextQuery]_vars

(***************************************************************************)
(* Actions of a caller that joins two tables: Emp(ID, Name, DeptID), the   *)
(* employees with the department each belongs to, and Dept(DeptID,         *)
(* DeptName).  Both are written; the keys are 0 and 2.                     *)
(***************************************************************************)
\* the rows a table holds at most in the behaviours that join
MaxJoinRows == 3

StaffColumns == <<[name |-> "ID", data_type |-> "Int32"],
                  [name |-> "Name", data_type |-> "String"],
                  [name |-> "DeptID", data_type |-> "Int32"]>>

JoinShape(t) == IF t = "Emp" THEN StaffColumns ELSE DeptColumns

JoinRows(t) ==
    IF t = "Emp" THEN {<<Int32(0), StrA, Int32(0)>>, <<Int32(2), StrB, Int32(2)>>}
    ELSE {<<Int32(0), StrA>>, <<Int32(2), StrB>>}

\* a Join without a condition
JoinOf(left_table, right_table, left_column, right_column, cols) ==
    [kind |-> "Join", left_table |-> left_table, right_table |-> right_table,
     left_column |-> left_column, right_column |-> right_column,
     columns |-> cols, condition |-> NoCondition]

\* the joins offered: employees with their departments, the projection
\* naming both tables, the right one only, or no table (DeptID is then the
\* employee's); and departments with the employees whose ID is the
\* department's
JoinQueries ==
    {JoinOf("Emp", "Dept", "DeptID", "DeptID", <<"Emp.Name", "Dept.DeptName">>),
     JoinOf("Emp", "Dept", "DeptID", "DeptID", <<"Name", "Dept.DeptID">>),
     JoinOf("Emp", "Dept", "DeptID", "DeptID", <<"DeptID", "Name">>),
     JoinOf("Dept", "Emp", "DeptID", "ID", <<"DeptName", "Emp.Name">>)}

JoinCreate ==
    \E t \in TableNames :
        /\ Run([kind |-> "CreateTable", table |-> t, columns |-> JoinShape(t)])

JoinInsert ==
    \E t \in TableNames :
        \E row \in JoinRows(t) :
            /\ t \in DOMAIN schema => schema[t].row_count < MaxJoinRows
            /\ t \in DOMAIN history => Len(history[t].rows) < MaxJoinRows
            /\ Run([kind |-> "Insert", table |-> t, values |-> row])

Join ==
    \E query \in JoinQueries :
        /\ Run(query)

NextJoin == JoinCreate \/ JoinInsert \/ Join

SpecJoin == Init /\ [][NextJoin]_vars

(***************************************************************************)
(* Two tables of one shape, both written: their columns have the same      *)
(* names, so their column stores open the same files.                      *)
(***************************************************************************)
\* the rows a table holds at most in the behaviours with two written tables
MaxShareRows == 3

\* each table is created once: creating it again reloads its block lists
\* from the shared metadata files, and the lists then grow without bound
ShareCreate ==
    \E t \in TableNames :
        /\ t \notin DOMAIN schema
        /\ Run([kind |-> "CreateTable", table |-> t, columns |-> EmpColumns])

\* the row offered to Insert on either table
ShareRows == {<<Int32(0), StrA>>}

ShareInsert ==
    \E t \in TableNames, row \in ShareRows :
        /\ t \in DOMAIN schema => schema[t].row_count < MaxShareRows
        /\ t \in DOMAIN history => Len(history[t].rows) < MaxShareRows
        /\ Run([kind |-> "Insert", table |-> t, values |-> row])

ShareDelete ==
    \E t \in TableNames, cond \in QueryConditions :
        /\ Run([kind |-> "Delete", table |-> t, condition |-> cond])

NextShare == ShareCreate \/ ShareInsert \/ ShareDelete

SpecShare == Init /\ [][NextShare]_vars

(***************************************************************************)
(* The compression codec called directly, and a column store appended to   *)
(* and read block by block.                                                *)
(***************************************************************************)
\* the longest sequence of mixed values offered to compress and append
MaxCodecLen == 3

\* a column store is appended to while the stores of the table list fewer
\* blocks than this between them
MaxBlocks == 1

\* n copies of a value
Repeat(v, n) == [i \in 1..n |-> v]

\* the short sequences offered, of either type
CodecInputs ==
    UNION {[1..n -> {Int32(0), Int32(1)}] \cup [1..n -> {StrA, StrB}] :
              n \in 1..MaxCodecLen}

\* sequences with a run at the limit of a run and above it
LongRuns ==
    {Repeat(Int32(0), RleRunLimit), Repeat(Int32(0), RleRunLimit + 1),
     <<Int32(1)>> \o Repeat(Int32(0), RleRunLimit + 1)}

\* the compression schemes that are valid for a data type
SchemesFor(dt) == IF dt = "String" THEN {"None", "Rle", "Dictionary"} ELSE {"None", "Rle"}

\* the state after a call on the codec or on a column store that returned r
CodecReturned(query, r) ==
    /\ last' = [query |-> query, ok |-> r.ok, err |-> r.err, v |-> r.v]
    /\ UNCHANGED <<wal, next_tx_id, tx, history>>
    /\ UNCHANGED apart

\* compress on a short sequence with a scheme valid for it, or on a long
\* run with Rle
Compress ==
    \E values \in CodecInputs \cup LongRuns :
        \E c \in IF values \in LongRuns THEN {"Rle"} ELSE SchemesFor(values[1].t) :
            /\ CodecReturned([kind |-> "Compress", values |-> values, compression |-> c],
                             compress(values, c))
            /\ UNCHANGED storage

\* decompress on the bytes that the last call of compress returned
Decompress ==
    /\ last.query.kind = "Compress"
    /\ last.ok
    /\ CodecReturned([kind |-> "Decompress", values |-> last.query.values,
                      compression |-> last.query.compression],
                     decompress(last.v, last.query.compression, last.query.values[1].t))
    /\ UNCHANGED storage

CodecCreate ==
    /\ "Emp" \notin DOMAIN schema
    /\ Run([kind |-> "CreateTable", table |-> "Emp", columns |-> EmpColumns])

\* ColumnStore::append on a column store of the table, with values of the
\* column's type
StoreAppend ==
    \E c \in {"ID", "Name"}, values \in CodecInputs :
        \E compression \in SchemesFor(values[1].t) :
            /\ "Emp" \in DOMAIN columns
            /\ Len(columns["Emp"]["ID"].blocks) + Len(columns["Emp"]["Name"].blocks)
                  < MaxBlocks
            /\ values[1].t = columns["Emp"][c].column.data_type
            /\ SetDB(ColumnStore_append(DB, "Emp", c, values, compression).db)
            /\ CodecReturned([kind |-> "Append", column |-> c, values |-> values,
                              compression |-> compression],
                             ColumnStore_append(DB, "Emp", c, values, compression))

\* ColumnStore::read_block on the block that the last append recorded
StoreReadBlock ==
    /\ last.query.kind = "Append"
    /\ last.ok
    /\ CodecReturned([kind |-> "ReadBlock", column |-> last.query.column,
                      values |-> last.query.values,
                      compression |-> last.query.compression],
                     read_block(DB, columns["Emp"][last.query.column],
                                columns["Emp"][last.query.column].blocks[
                                    Len(columns["Emp"][last.query.column].blocks)]))
    /\ UNCHANGED storage

NextCodec == Compress \/ Decompress \/ CodecCreate \/ StoreAppend \/ StoreReadBlock

SpecCodec == Init /\ [][NextCodec]_vars

(***************************************************************************)
(* A second thread that holds a clone of the storage handle and executes   *)
(* queries through a QueryEngine of its own, beside the thread that works  *)
(* through the transaction manager.  execute locks the storage for each of *)
(* its calls on it and commit_transaction holds no lock of its own, so a   *)
(* call of the second thread is scheduled before or after any query of a   *)
(* batch.                                                                  *)
(***************************************************************************)
\* the queries of the second thread: a read and a write
OutsideQueries ==
    {[kind |-> "Select", table |-> "Emp", columns |-> <<>>, condition |-> NoCondition],
     [kind |-> "Insert", table |-> "Emp", values |-> <<Int32(1), StrB>>]}

\* the state after a query of the second thread returned r; last keeps how
\* many queries of the batch under way were executed before it (-1 when no
\* commit is under way)
OutsideReturned(query, r) ==
    /\ SetDB(r.db)
    /\ history' = Record(history, query, r.ok)
    /\ last' = [query |-> [kind |-> "Outside", query |-> query,
                           pos |-> IF Committing THEN tx.pos ELSE -1,
                           queries |-> Len(tx.queries)],
                ok |-> r.ok, err |-> r.err, v |-> r.v]
    /\ UNCHANGED <<wal, next_tx_id, tx>>
    /\ UNCHANGED apart

Outside ==
    \E q \in OutsideQueries :
        /\ RowsOf("Emp") < MaxRowCount
        /\ "Emp" \in DOMAIN history => Len(history["Emp"].rows) < MaxRowCount
        /\ OutsideReturned(q, execute(DB, q))

NextThreads ==
    \/ Begin \/ StepAddQuery \/ CommitLog \/ CommitQuery \/ CommitTruncate
    \/ StepRollback \/ Outside

SpecThreads == Init /\ [][NextThreads]_vars

(***************************************************************************)
(* get_blocks called on block lists whose min and max bound the values of  *)
(* the rows they were made from.                                           *)
(***************************************************************************)
\* the rows a block holds at most
MaxPruneRows == 2

\* the rows the blocks are made from, laid out as EmpColumns
PruneRows ==
    {<<Int32(0), StrA>>, <<Int32(1), StrA>>, <<Int32(1), StrB>>, <<Int32(2), StrA>>}

\* the rows of one block
PruneData == UNION {[1..n -> PruneRows] : n \in 1..MaxPruneRows}

\* the rows of the blocks of a list: one block, or a block and a second one
\* of a single row
PruneLists ==
    {<<d>> : d \in PruneData} \cup {<<d, <<r>>>> : d \in PruneData, r \in PruneRows}

\* the leaves offered: on either column, and one that compares the Int32
\* column with a String
PruneLeaves ==
    {[op |-> o, col |-> "ID", val |-> Int32(1)] : o \in {"Equal", "GreaterThan", "LessThan"}}
      \cup {[op |-> o, col |-> "Name", val |-> StrB] : o \in {"Equal", "GreaterThan", "LessThan"}}
      \cup {Equal("ID", StrA), GreaterThan("ID", StrA)}

PruneConditions ==
    PruneLeaves \cup {And(l, r) : l \in PruneLeaves, r \in PruneLeaves}
                \cup {Or(l, r) : l \in PruneLeaves, r \in PruneLeaves}

\* the values of a column in the rows of a block
PruneColumn(rows, c) == [k \in 1..Len(rows) |-> RowValue(EmpColumns, rows[k], c)]

\* the BlockInfo entries that append records for a column of such blocks:
\* min and max as ColumnStore::append computes them
PruneBlocks(data, c) ==
    [i \in 1..Len(data) |->
        [offset |-> i - 1, row_count |-> Len(data[i]),
         min |-> MinValue(PruneColumn(data[i], c)),
         max |-> MaxValue(PruneColumn(data[i], c)),
         compression |-> "None", serialized_size |-> 0]]

\* the rows of the blocks, the column whose blocks are pruned and the
\* condition are chosen at the start
InitPrune ==
    /\ LET db == create_database(EmptyDisk)
       IN  /\ schema = db.schema
           /\ columns = db.columns
           /\ indexes = db.indexes
           /\ pending_rows = db.pending_rows
           /\ disk = db.disk
    /\ wal = <<>>
    /\ next_tx_id = 1
    /\ InitApart
    /\ tx = NoTx
    /\ history = EmptyMap
    /\ \E data \in PruneLists, c \in {"ID", "Name"}, cond \in PruneConditions :
          last = [query |-> [kind |-> "Input", data |-> data, column |-> c,
                             condition |-> cond],
                  ok |-> TRUE, err |-> "", v |-> <<>>]

GetBlocks ==
    /\ last.query.kind = "Input"
    /\ last' = [query |-> [last.query EXCEPT !.kind = "GetBlocks"],
                ok |-> TRUE, err |-> "",
                v |-> get_blocks(PruneBlocks(last.query.data, last.query.column),
                                 last.query.column, last.query.condition)]
    /\ UNCHANGED <<schema, columns, indexes, pending_rows, disk, wal, next_tx_id,
                   tx, history>>
    /\ UNCHANGED apart

NextPrune == GetBlocks

SpecPrune == InitPrune /\ [][NextPrune]_vars

(***************************************************************************)
(* The two block-level evaluators applied to the same blocks, column and   *)
(* condition.                                                              *)
(***************************************************************************)
\* both evaluators on each block of the list
EvaluateBlocks ==
    /\ last.query.kind = "Input"
    /\ last' = [query |-> [last.query EXCEPT !.kind = "EvaluateBlocks"],
                ok |-> TRUE, err |-> "",
                v |-> [i \in 1..Len(last.query.data) |->
                         [block |-> PruneBlocks(last.query.data, last.query.column)[i],
                          matches |->
                              matches_condition(
                                  PruneBlocks(last.query.data, last.query.column)[i],
                                  last.query.condition, last.query.column),
                          evaluates |->
                              evaluate_condition_block(
                                  last.query.condition, last.query.column,
                                  PruneBlocks(last.query.data, last.query.column)[i])]]]
    /\ UNCHANGED <<schema, columns, indexes, pending_rows, disk, wal, next_tx_id,
                   tx, history>>
    /\ UNCHANGED apart

NextEval == EvaluateBlocks

SpecEval == InitPrune /\ [][NextEval]_vars

(***************************************************************************)
(* The buffer manager called block by block.  Which block is asked for and *)
(* whether the column store can read it are the caller's; the accesses     *)
(* that returned a block are recorded in order.                            *)
(***************************************************************************)
\* the largest capacity a buffer manager is made with
MaxCapacity == 2

\* the most blocks that are handed out
MaxGets == 5

\* the keys of the blocks asked for: column name and offset
BufferKeys ==
    {[column |-> "ID", offset |-> 0], [column |-> "ID", offset |-> 15],
     [column |-> "Name", offset |-> 0]}

\* what read_block returns for the block with the key: the block, or the
\* error of a file that cannot be read
BlockReads(key) == {Ok([of |-> key]), Err("IoError", <<>>)}

\* the keys of the blocks handed out so far, in the order of the calls
Accesses == IF "accesses" \in DOMAIN history THEN history["accesses"] ELSE <<>>

InitBuffer ==
    /\ LET db == create_database(EmptyDisk)
       IN  /\ schema = db.schema
           /\ columns = db.columns
           /\ indexes = db.indexes
           /\ pending_rows = db.pending_rows
           /\ disk = db.disk
    /\ wal = <<>>
    /\ next_tx_id = 1
    /\ tx = NoTx
    /\ history = EmptyMap
    /\ last = [query |-> [kind |-> "Open"], ok |-> TRUE, err |-> "", v |-> <<>>]
    /\ \E capacity \in 1..MaxCapacity : buffer = BufferManager_new(capacity)
    /\ mutex = 0
    /\ threads = [th \in Threads |-> Idle]
    /\ running = TRUE

\* the state after a call of get_block for the key that returned r
BlockReturned(key, r) ==
    /\ buffer' = r.bm
    /\ last' = [query |-> [kind |-> "GetBlock", key |-> key],
                ok |-> r.ok, err |-> r.err, v |-> r.v]
    /\ history' = IF r.ok THEN Put(history, "accesses", Append(Accesses, key))
                  ELSE history
    /\ UNCHANGED <<schema, columns, indexes, pending_rows, disk, wal, next_tx_id,
                   tx, mutex, threads, running>>

GetBlock ==
    \E key \in BufferKeys :
        \E read \in BlockReads(key) :
            /\ Len(Accesses) < MaxGets
            /\ BlockReturned(key, get_block(buffer, key, read))

NextBuffer == GetBlock

SpecBuffer == InitBuffer /\ [][NextBuffer]_vars

(***************************************************************************)
(* The REPL (repl/mod.rs): Repl::run reads a line, parses it and handles   *)
(* the query; tx is Repl.active_transaction (NoTx for None).  A handler    *)
(* returns the record r of what it left: db, wal, tx, next_tx_id, running, *)
(* and ok: whether it printed no error.                                    *)
(***************************************************************************)
\* what a handler leaves when it only prints: an error when ok is false
Printed(db, w, t, next, ok) ==
    [db |-> db, wal |-> w, tx |-> t, next_tx_id |-> next, running |-> TRUE,
     ok |-> ok, err |-> IF ok THEN "" ELSE "Error", v |-> <<>>]

\* what a handler leaves that handed transaction t to the transaction
\* manager, which returned r; no transaction is active afterwards
Taken(r, next) ==
    [db |-> r.db, wal |-> r.wal, tx |-> NoTx, next_tx_id |-> next, running |-> TRUE,
     ok |-> r.ok, err |-> r.err, v |-> r.v]

\* a START TRANSACTION that begins a transaction whether or not one is active
start_transaction_anew(db, w, t, next) ==
    Printed(db, w, begin_transaction(next).tx, begin_transaction(next).next_tx_id, TRUE)

\* Repl::run, Query::StartTransaction
start_transaction(db, w, t, next) ==
    IF t.active THEN Printed(db, w, t, next, FALSE)
    ELSE Printed(db, w, begin_transaction(next).tx, begin_transaction(next).next_tx_id,
                 TRUE)

\* Repl::run, Query::Commit
commit(db, w, t, next) ==
    IF t.active THEN Taken(commit_transaction(db, w, t), next)
    ELSE Printed(db, w, t, next, FALSE)

\* Repl::run, Query::Rollback
rollback(db, w, t, next) ==
    IF t.active THEN Taken(rollback_transaction(db, w, t), next)
    ELSE Printed(db, w, t, next, FALSE)

\* a handler of the data queries that submits the query at once also when a
\* transaction is active, and queues it as well
data_query_at_once(db, w, t, next, query) ==
    [Taken(commit_transaction(db, w, add_query(begin_transaction(next).tx, query)),
           begin_transaction(next).next_tx_id)
       EXCEPT !.tx = IF t.active THEN add_query(t, query) ELSE NoTx]

\* Repl::run, every other query: it is queued in the active transaction, or
\* submitted in a transaction of its own
data_query(db, w, t, next, query) ==
    IF t.active THEN Printed(db, w, add_query(t, query), next, TRUE)
    ELSE Taken(commit_transaction(db, w, add_query(begin_transaction(next).tx, query)),
               begin_transaction(next).next_tx_id)

\* Repl::run, the input EXIT: an active transaction is rolled back, the
\* loop ends
exit(db, w, t, next) ==
    [(IF t.active THEN Taken(rollback_transaction(db, w, t), next)
      ELSE Printed(db, w, t, next, TRUE))
       EXCEPT !.running = FALSE]

\* the state after the handler of an input returned r, h being the history
\* after it
ReplReturned(input, r, h) ==
    /\ \A t \in DOMAIN h : Len(h[t].rows) <= MaxRowCount
    /\ \A t \in DOMAIN r.db.schema : r.db.schema[t].row_count <= MaxRowCount
    /\ r.next_tx_id <= MaxTxId + 1
    /\ Len(r.wal) <= MaxWal
    /\ Len(r.tx.queries) <= MaxBatch
    /\ SetDB(r.db)
    /\ wal' = r.wal
    /\ tx' = r.tx
    /\ next_tx_id' = r.next_tx_id
    /\ running' = r.running
    /\ history' = h
    /\ last' = [query |-> [kind |-> "Repl", input |-> input],
                ok |-> r.ok, err |-> r.err, v |-> r.v]
    /\ UNCHANGED <<buffer, mutex, threads>>

ReplStart ==
    /\ running
    /\ ReplReturned([cmd |-> "Start"], start_transaction(DB, wal, tx, next_tx_id), history)

ReplCommit ==
    /\ running
    /\ ReplReturned([cmd |-> "Commit"], commit(DB, wal, tx, next_tx_id),
                    RecordAll(history, DB, tx.queries, Len(tx.queries)))

ReplRollback ==
    /\ running
    /\ ReplReturned([cmd |-> "Rollback"], rollback(DB, wal, tx, next_tx_id), history)

ReplQuery ==
    \E q \in TxQueries :
        /\ running
        /\ ReplReturned([cmd |-> "Query", query |-> q],
                        data_query(DB, wal, tx, next_tx_id, q),
                        IF tx.active THEN history ELSE RecordAll(history, DB, <<q>>, 1))

ReplExit ==
    /\ running
    /\ ReplReturned([cmd |-> "Exit"], exit(DB, wal, tx, next_tx_id), history)

\* HELP, an empty line, or a line that parse_query rejects: the loop
\* goes on
ReplOther ==
    /\ running
    /\ ReplReturned([cmd |-> "Other"], Printed(DB, wal, tx, next_tx_id, TRUE), history)

\* the line editor reports an interrupt, the end of the input or an error:
\* the loop ends and the active transaction is dropped with the REPL
ReplBreak ==
    /\ running
    /\ ReplReturned([cmd |-> "Break"],
                    [Printed(DB, wal, tx, next_tx_id, TRUE) EXCEPT !.running = FALSE],
                    history)

NextRepl ==
    \/ ReplStart \/ ReplCommit \/ ReplRollback \/ ReplQuery \/ ReplExit
    \/ ReplOther \/ ReplBreak

SpecRepl == Init /\ [][NextRepl]_vars

(***************************************************************************)
(* The lock of the storage within QueryEngine.execute (query/planner.rs).  *)
(* A call goes through a plan: the calls of self.storage.lock() and the    *)
(* ends of the scopes that drop the guard, in program order.  A thread     *)
(* holds pc, the place in the plan it is at (0 outside a call), and        *)
(* guards, the number of guards it holds.  lock() blocks while the mutex   *)
(* is held, by whatever thread.  What the storage calls under the lock do  *)
(* is left out here; an error may end the call at any place after its      *)
(* first lock, and dropping the guard is part of that return.              *)
(***************************************************************************)
\* the places of execute_select that take and drop the guard: the block
\* around get_table, and the guard held from the reads to the end
ExecuteSelectPlan == <<"lock", "drop", "lock", "drop">>

\* an execute whose Select takes the guard for the column list and holds it
\* across the call of execute_select
LockPlan_holding(query) ==
    IF query.kind = "Select" /\ query.columns = <<>>
    THEN <<"lock">> \o ExecuteSelectPlan \o <<"drop">>
    ELSE IF query.kind \in {"Select", "SelectAggregate"} THEN ExecuteSelectPlan
    ELSE IF query.kind \in {"StartTransaction", "Commit", "Rollback"} THEN <<>>
    ELSE <<"lock", "drop">>

\* QueryEngine::execute, by variant: a Select without columns takes the
\* guard for the column list and drops it before execute_select;
\* execute_aggregate has the two scopes of execute_select; the transaction
\* commands take no lock; every other variant takes the guard once
LockPlan(query) ==
    IF query.kind = "Select" /\ query.columns = <<>>
    THEN <<"lock", "drop">> \o ExecuteSelectPlan
    ELSE IF query.kind \in {"Select", "SelectAggregate"} THEN ExecuteSelectPlan
    ELSE IF query.kind \in {"StartTransaction", "Commit", "Rollback"} THEN <<>>
    ELSE <<"lock", "drop">>

\* the queries the threads call execute with: every variant, Select with
\* and without a column list
LockQueries ==
    {[kind |-> k] : k \in {"SelectAggregate", "Join", "Insert", "CreateTable", "Delete",
                           "DropTable", "StartTransaction", "Commit", "Rollback",
                           "MakeIndex", "DropIndex"}}
      \cup {[kind |-> "Select", columns |-> cols] : cols \in {<<>>, <<"Name">>}}

InCall(th) == threads[th].pc > 0

\* the place of the plan the thread is at
AtPlace(th, op) ==
    /\ InCall(th)
    /\ threads[th].pc <= Len(threads[th].plan)
    /\ threads[th].plan[threads[th].pc] = op

\* the frame of a step within a call
WithinCall ==
    /\ UNCHANGED <<schema, columns, indexes, pending_rows, disk, wal, next_tx_id,
                   tx, last, history, buffer, running>>

\* a thread calls execute
CallExecute(th) ==
    \E q \in LockQueries :
        /\ ~InCall(th)
        /\ threads' = [threads EXCEPT ![th] =
                          [pc |-> 1, plan |-> LockPlan(q), guards |-> 0, query |-> q]]
        /\ UNCHANGED mutex
        /\ WithinCall

\* self.storage.lock() returns the guard; the thread waits while the mutex
\* is held
Acquire(th) ==
    /\ AtPlace(th, "lock")
    /\ mutex = 0
    /\ mutex' = th
    /\ threads' = [threads EXCEPT ![th].pc = @ + 1, ![th].guards = @ + 1]
    /\ WithinCall

\* the scope of the guard ends
Release(th) ==
    /\ AtPlace(th, "drop")
    /\ mutex' = 0
    /\ threads' = [threads EXCEPT ![th].pc = @ + 1, ![th].guards = @ - 1]
    /\ WithinCall

\* the state after execute returned on thread th
Left(th, ok) ==
    /\ threads' = [threads EXCEPT ![th] = Idle]
    /\ last' = [query |-> [kind |-> "Execute", thread |-> th,
                           query |-> threads[th].query,
                           guards |-> IF ok THEN threads[th].guards ELSE 0],
                ok |-> ok, err |-> IF ok THEN "" ELSE "InvalidData", v |-> <<>>]
    /\ UNCHANGED <<schema, columns, indexes, pending_rows, disk, wal, next_tx_id,
                   tx, history, buffer, running>>

\* execute returns at the end of the variant's arm
Return(th) ==
    /\ InCall(th)
    /\ threads[th].pc = Len(threads[th].plan) + 1
    /\ UNCHANGED mutex
    /\ Left(th, TRUE)

\* execute returns an error after its first lock; a guard in scope is
\* dropped on the way out
ErrorReturn(th) ==
    /\ InCall(th)
    /\ threads[th].pc > 1
    /\ threads[th].pc <= Len(threads[th].plan)
    /\ mutex' = IF threads[th].guards > 0 THEN 0 ELSE mutex
    /\ Left(th, FALSE)

\* a step of thread th within a call
Proceed(th) == Acquire(th) \/ Release(th) \/ Return(th) \/ ErrorReturn(th)

NextLock ==
    \E th \in Threads :
        \/ CallExecute(th)
        \/ Acquire(th)
        \/ Release(th)
        \/ Return(th)
        \/ ErrorReturn(th)

SpecLock == Init /\ [][NextLock]_vars

\* every thread in a call is scheduled again
SpecLockFair == SpecLock /\ \A th \in Threads : WF_vars(Proceed(th))

(***************************************************************************)
(* Properties.                                                             *)
(***************************************************************************)
\* the rows of table t that satisfy cond, in insertion order, each projected
\* onto cols (all columns in table order when cols is empty)
Expected(t, cols, cond) ==
    LET table_columns == history[t].columns
        names == IF cols = <<>>
                 THEN [k \in 1..Len(table_columns) |-> table_columns[k].name]
                 ELSE cols
        chosen == SelectSeq(history[t].rows, LAMBDA r :
                      cond.op = "None" \/ RowSatisfies(cond, table_columns, r))
    IN  [i \in 1..Len(chosen) |->
            [k \in 1..Len(names) |-> RowValue(table_columns, chosen[i], names[k])]]

\* the values of column c of the rows of table t, in insertion order
ExpectedColumn(t, c) ==
    [i \in 1..Len(history[t].rows) |->
        RowValue(history[t].columns, history[t].rows[i], c)]

\* C1: a Select on a table returns exactly the rows that satisfy its
\* condition, in insertion order, each with exactly the requested columns in
\* the requested order.
C1_SelectReturnsSatisfyingRows ==
    (last.query.kind = "Select" /\ last.query.table \in DOMAIN history)
        => /\ last.ok
           /\ last.v = Expected(last.query.table, last.query.columns,
                                 last.query.condition)

\* a call returned success with the value v
Returns(r, v) == r.ok /\ r.v = v

\* two calls returned the same outcome and the same value
SameAnswer(before, after) == before.ok = after.ok /\ before.v = after.v

\* C2: after only inserts into a new table, read_column without a condition
\* returns, for every column, the inserted values of that column in
\* insertion order, across flush boundaries too.
C2_InsertsReadBackInOrder ==
    \A t \in DOMAIN history :
        (history[t].fresh /\ t \in DOMAIN schema)
            => \A c \in ColumnNames(schema[t]) :
                  Returns(read_column(DB, t, c, NoCondition),
                          AsRuns(ExpectedColumn(t, c)))

\* the number of rows the blocks of a block list account for
RECURSIVE BlockRows(_)
BlockRows(blocks) ==
    IF blocks = <<>> THEN 0 ELSE blocks[1].row_count + BlockRows(Tail(blocks))

\* the length of the pending list of column c of table t
PendingRows(t, c) ==
    IF t \in DOMAIN pending_rows /\ c \in DOMAIN pending_rows[t]
    THEN Len(pending_rows[t][c]) ELSE 0

\* the queries a caller may use to look at table Emp
Probes ==
    {[kind |-> "Select", table |-> "Emp", columns |-> cols, condition |-> cond] :
        cols \in Projections, cond \in Conditions \cup {NoCondition}}

\* C3: commit_transaction is all-or-nothing: a commit that returns an error
\* leaves the schema, the row counts, the column blocks, the pending rows and
\* the indexes as they were before the call.
C3_FailedCommitChangesNothing ==
    [][(last'.query.kind = "Commit" /\ ~last'.ok)
          => UNCHANGED <<schema, columns, indexes, pending_rows, disk>>]_vars

\* C4: rollback_transaction returns success and, whatever queries the
\* transaction holds, leaves the schema, the row counts, the column blocks,
\* the pending rows and the indexes unchanged and the WAL empty; every Select
\* returns after it what it returned before it.
C4_RollbackChangesNothing ==
    [][last'.query.kind = "Rollback"
          => /\ last'.ok
             /\ UNCHANGED <<schema, columns, indexes, pending_rows, disk>>
             /\ wal' = <<>>
             /\ \A q \in Probes : SameAnswer(execute(DB, q), execute(DB', q))]_vars

\* C4 witness: a rollback of a transaction that held queries, called on a
\* table with rows while the WAL held the record of a failed commit
C4_Witness ==
    /\ last.query.kind = "Rollback"
    /\ last.query.queries > 0
    /\ last.query.logged > 0
    /\ "Emp" \in DOMAIN schema
    /\ schema["Emp"].row_count > 0
    /\ wal = <<>>

\* C5: after a commit that inserted rows, opening the data directory again
\* yields a database that still has the table and returns every committed
\* row from Select.
C5_CommittedRowsSurviveReopen ==
    last.query.kind = "Reopen"
        => \A t \in DOMAIN history :
              history[t].rows # <<>>
                  => /\ t \in DOMAIN schema
                     /\ Returns(execute(DB, [kind |-> "Select", table |-> t,
                                             columns |-> <<>>,
                                             condition |-> NoCondition]),
                                Expected(t, <<>>, NoCondition))

\* C6: after create_table(T) returns success the persisted schema contains
\* T, and opening the data directory again loads a schema whose entry for T
\* is the created Table.
C6_CreatedTableIsPersisted ==
    (last.query.kind = "CreateTable" /\ last.ok)
        => LET t == last.query.table
               created == [name |-> t, columns |-> last.query.columns, row_count |-> 0]
               reopened == create_database(disk)
           IN  /\ disk.schema_json.exists
               /\ t \in DOMAIN disk.schema_json.tables
               /\ disk.schema_json.tables[t] = created
               /\ t \in DOMAIN reopened.schema
               /\ reopened.schema[t] = created

\* C7: after every successful create_table, insert_row and delete_rows, for
\* every table and every one of its columns, the row counts of the column's
\* blocks plus the length of its pending list equal the table's row_count.
C7_RowCountIsBlocksPlusPending ==
    (last.query.kind \in {"CreateTable", "Insert", "Delete"} /\ last.ok)
        => \A t \in DOMAIN schema :
              \A c \in ColumnNames(schema[t]) :
                  /\ t \in DOMAIN columns
                  /\ c \in DOMAIN columns[t]
                  /\ BlockRows(columns[t][c].blocks) + PendingRows(t, c)
                        = schema[t].row_count

\* C8: an insert whose ID equals the ID of a row inserted earlier and not
\* deleted fails, whether that row is flushed or pending; hence no two rows
\* of a table share an ID.
C8_NoTwoRowsShareAnId ==
    \A t \in DOMAIN history :
        \A i, j \in 1..Len(history[t].rows) :
            i # j => history[t].rows[i][1] # history[t].rows[j][1]

\* C9: an Insert whose row holds a value of another type than the column at
\* its position returns the error TypeMismatch.
C9_WrongTypeIsTypeMismatch ==
    (/\ last.query.kind = "Insert"
     /\ last.query.table \in DOMAIN schema
     /\ last.query.values = BadTypeRow)
        => ~last.ok /\ last.err = "TypeMismatch"

\* C10: after delete_rows with a condition succeeds, the table holds exactly
\* the rows that did not satisfy the condition, in their order and with the
\* columns aligned, and row_count is the number of kept rows.
C10_DeleteKeepsTheOtherRows ==
    (/\ last.query.kind = "Delete"
     /\ last.query.condition.op # "None"
     /\ last.ok
     /\ last.query.table \in DOMAIN history)
        => LET t == last.query.table
           IN  /\ schema[t].row_count = Len(history[t].rows)
               /\ \A c \in ColumnNames(schema[t]) :
                     Returns(read_column(DB, t, c, NoCondition),
                             AsRuns(ExpectedColumn(t, c)))

\* C11: after delete_rows without a condition succeeds, the table's
\* row_count is 0, every column's block list is empty (in the store and in
\* its metadata file), the table has no pending rows, every index of the
\* table is empty, and the table is still in the schema with its columns.
C11_DeleteAllEmptiesTheTable ==
    (/\ last.query.kind = "Delete"
     /\ last.query.condition.op = "None"
     /\ last.ok)
        => LET t == last.query.table
           IN  /\ t \in DOMAIN schema
               /\ schema[t].row_count = 0
               /\ t \in DOMAIN history => schema[t].columns = history[t].columns
               /\ \A c \in ColumnNames(schema[t]) :
                     /\ columns[t][c].blocks = <<>>
                     /\ c \in DOMAIN disk.metadata /\ disk.metadata[c] = <<>>
                     /\ c \in DOMAIN disk.columns /\ disk.columns[c] = <<>>
                     /\ PendingRows(t, c) = 0
               /\ t \notin DOMAIN pending_rows
               /\ \A c \in DOMAIN indexes[t] :
                     /\ indexes[t][c].cache = EmptyMap
                     /\ <<t, c>> \in DOMAIN disk.indexes
                     /\ disk.indexes[<<t, c>>] = EmptyMap

\* C11 witness: a Delete without a condition returned success on a table
\* that held more rows than one segment, so blocks had been written
C11_Witness ==
    /\ last.query.kind = "Delete"
    /\ last.query.condition.op = "None"
    /\ last.ok
    /\ last.rows > max_rows_per_segment

\* the queries a caller may use on table t after it was dropped
LaterQueries(t) ==
    {[kind |-> "Select", table |-> t, columns |-> <<>>, condition |-> NoCondition],
     [kind |-> "Select", table |-> t, columns |-> <<ShapeOf(t)[1].name>>,
      condition |-> NoCondition],
     [kind |-> "Insert", table |-> t, values |-> <<Int32(0), StrA>>],
     [kind |-> "Delete", table |-> t, condition |-> NoCondition],
     [kind |-> "Delete", table |-> t,
      condition |-> Equal(ShapeOf(t)[1].name, Int32(0))]}

\* a call failed with InvalidData
IsInvalidData(r) == ~r.ok /\ r.err = "InvalidData"

\* C12: after drop_table(T) succeeds the schema has no entry for T, T's
\* column stores, indexes and pending rows are gone, the column, metadata and
\* index files of T's columns do not exist, and Select, Insert and Delete on
\* T fail with InvalidData; drop_table of a table that is not in the schema
\* fails with InvalidData and changes nothing.
C12_DropTableRemovesTheTable ==
    [][last'.query.kind = "DropTable"
          => LET t == last'.query.table
             IN  IF t \in DOMAIN schema
                 THEN last'.ok
                        => /\ t \notin DOMAIN schema'
                           /\ t \notin DOMAIN disk'.schema_json.tables
                           /\ t \notin DOMAIN columns'
                           /\ t \notin DOMAIN indexes'
                           /\ t \notin DOMAIN pending_rows'
                           /\ \A c \in ColumnNames(schema[t]) :
                                 /\ c \notin DOMAIN disk'.columns
                                 /\ c \notin DOMAIN disk'.metadata
                                 /\ <<t, c>> \notin DOMAIN disk'.indexes
                           /\ \A q \in LaterQueries(t) : IsInvalidData(execute(DB', q))
                 ELSE /\ ~last'.ok
                      /\ last'.err = "InvalidData"
                      /\ UNCHANGED <<schema, columns, indexes, pending_rows, disk>>]_vars

\* the state after the first k queries of a batch, each executed on the
\* state the one before it left, whatever it returned
RECURSIVE RunPrefix(_, _, _)
RunPrefix(db, queries, k) ==
    IF k = 0 THEN db ELSE execute(RunPrefix(db, queries, k - 1), queries[k]).db

\* query k of the batch, executed after the k - 1 queries before it
Outcome(db, queries, k) == execute(RunPrefix(db, queries, k - 1), queries[k])

\* the first k queries of the batch succeed one after the other
PrefixSucceeds(db, queries, k) == \A j \in 1..k : Outcome(db, queries, j).ok

\* r is what a commit must leave when query k fails: r's error, r's state
\* and the WAL with the record of the transaction
FailedAt(r) ==
    /\ ~r.ok
    /\ last'.err = r.err
    /\ DB' = r.db
    /\ wal' = Append(wal, tx.id)

\* C13: if the k-th query of a committed batch fails, commit_transaction
\* returns that query's error, no later query is executed, and the WAL still
\* holds the record of the transaction.
C13_FailedCommitStopsAndKeepsWal ==
    [][(last'.query.kind = "Commit" /\ ~last'.ok)
          => \E k \in 1..Len(tx.queries) :
                /\ PrefixSucceeds(DB, tx.queries, k - 1)
                /\ FailedAt(Outcome(DB, tx.queries, k))]_vars

\* C13 witness: a commit of two queries returned an error and left its
\* record in the WAL
C13_Witness ==
    /\ last.query.kind = "Commit"
    /\ ~last.ok
    /\ last.query.queries > 1
    /\ wal # <<>>

\* C14: in every commit_transaction the record of the transaction is in the
\* WAL before a query of the batch changes storage, and whenever
\* commit_transaction or rollback_transaction returns success the WAL has
\* length zero.
C14_WalBeforeQueriesAndEmptyAfter ==
    /\ [][(/\ last'.query.kind \in {"CommitQuery", "Commit"}
           /\ <<schema, columns, indexes, pending_rows, disk>>'
                 # <<schema, columns, indexes, pending_rows, disk>>)
             => (wal # <<>> /\ wal[Len(wal)] = tx.id)]_vars
    /\ []((last.query.kind \in {"Commit", "Rollback"} /\ last.ok) => wal = <<>>)

\* C14 witness: a commit under way has executed a query that created table
\* Emp, and the WAL holds the record
C14_Witness ==
    /\ Committing
    /\ tx.pos > 0
    /\ last.query.kind = "CommitQuery"
    /\ "Emp" \in DOMAIN schema
    /\ wal # <<>>

\* the rows the first k queries of a batch return, one query after the
\* other, each on the state the one before it left
RECURSIVE RowsOfPrefix(_, _, _)
RowsOfPrefix(db, queries, k) ==
    IF k = 0 THEN <<>>
    ELSE RowsOfPrefix(db, queries, k - 1) \o Outcome(db, queries, k).v

\* C15: the queries of a transaction are executed in the order in which
\* they were added, each on the state the earlier queries of the batch left,
\* and a successful commit returns the concatenation of the per-query
\* results in that order.
C15_BatchRunsInOrder ==
    [][(last'.query.kind = "Commit" /\ last'.ok)
          => /\ PrefixSucceeds(DB, tx.queries, Len(tx.queries))
             /\ DB' = RunPrefix(DB, tx.queries, Len(tx.queries))
             /\ last'.v = RowsOfPrefix(DB, tx.queries, Len(tx.queries))]_vars

\* C15 witness: a commit of two queries succeeded and returned a row of
\* table Emp, whose only row the commit itself inserted
C15_Witness ==
    /\ last.query.kind = "Commit"
    /\ last.ok
    /\ last.query.queries > 1
    /\ last.v # <<>>
    /\ "Emp" \in DOMAIN schema
    /\ schema["Emp"].row_count = 1

\* the columns a Select names, in its projection or in its condition
Named(query) ==
    {query.columns[k] : k \in 1..Len(query.columns)}
      \cup (IF query.condition.op = "None" THEN {}
            ELSE collect_condition_columns(query.condition))

\* the names of the columns of a table of the schema, in schema order
AllColumns(t) == [k \in 1..Len(schema[t].columns) |-> schema[t].columns[k].name]

\* a call neither succeeded nor changed the storage state
Rejected ==
    /\ ~last'.ok /\ last'.err = "InvalidData"
    /\ UNCHANGED <<schema, columns, indexes, pending_rows, disk>>

\* C16: a Select or SelectAggregate on a table the schema lacks, and a Select
\* naming (in its projection or its condition) a column the table lacks,
\* return InvalidData and leave the storage state as it was; a Select with
\* the empty column list returns what the Select naming every column of the
\* table in schema order returns, each row with one value per column.
C16_UnknownNamesRejectedStarIsAllColumns ==
    [][/\ (/\ last'.query.kind \in {"Select", "SelectAggregate"}
           /\ last'.query.table \notin DOMAIN schema) => Rejected
       /\ (/\ last'.query.kind = "Select"
           /\ last'.query.table \in DOMAIN schema
           /\ ~(Named(last'.query) \subseteq ColumnNames(schema[last'.query.table])))
             => Rejected
       /\ (/\ last'.query.kind = "Select"
           /\ last'.query.table \in DOMAIN schema
           /\ last'.query.columns = <<>>
           /\ last'.ok)
             => /\ SameAnswer(last',
                              execute(DB, [last'.query EXCEPT
                                             !.columns = AllColumns(last'.query.table)]))
                /\ \A i \in 1..Len(last'.v) :
                      Len(last'.v[i]) = Len(schema[last'.query.table].columns)]_vars

C16_Witness ==
    /\ last.query.kind = "Select" /\ last.query.table = "Emp"
    /\ "Emp" \in DOMAIN schema
    /\ last.query.columns = <<"Salary">>
    /\ ~last.ok /\ last.err = "InvalidData"
    /\ schema["Emp"].row_count > max_rows_per_segment

\* the values of column col in the rows a table is meant to hold
ColumnOf(t, col) ==
    [i \in 1..Len(history[t].rows) |->
        RowValue(history[t].columns, history[t].rows[i], col)]

\* the least and the greatest value of a non-empty sequence of values
Least(vs) ==
    CHOOSE v \in {vs[i] : i \in 1..Len(vs)} : \A i \in 1..Len(vs) : ~ValueLess(vs[i], v)

Greatest(vs) ==
    CHOOSE v \in {vs[i] : i \in 1..Len(vs)} : \A i \in 1..Len(vs) : ~ValueLess(v, vs[i])

\* the aggregations name columns the table has (Count the column ID), Sum
\* and Avg numeric ones
Aggregable(t, aggregations) ==
    \A k \in 1..Len(aggregations) :
        \E i \in 1..Len(schema[t].columns) :
            /\ schema[t].columns[i].name = AggColumn(aggregations[k])
            /\ aggregations[k].fn \in {"Sum", "Avg"}
                  => schema[t].columns[i].data_type \in {"Int32", "Float32"}

\* the last call was a SelectAggregate without a condition on table t
AggregatedAll(t) ==
    /\ last.query.kind = "SelectAggregate"
    /\ last.query.table = t
    /\ last.query.condition = NoCondition
    /\ t \in DOMAIN schema /\ t \in DOMAIN history
    /\ Aggregable(t, last.query.aggregations)

\* C19: a SelectAggregate without a condition returns a single row with one
\* value per requested aggregation, in request order: Count is the table's
\* row_count, Min and Max are the least and the greatest value of the named
\* column over all the rows of the table, flushed and pending alike.
C19_AggregateOverAllRows ==
    \A t \in TableNames :
        AggregatedAll(t) =>
            /\ last.ok
            /\ Len(last.v) = 1
            /\ Len(last.v[1]) = Len(last.query.aggregations)
            /\ \A k \in 1..Len(last.query.aggregations) :
                  LET agg == last.query.aggregations[k]
                  IN  /\ agg.fn = "Count" => last.v[1][k] = Int32(schema[t].row_count)
                      /\ (agg.fn = "Min" /\ history[t].rows # <<>>)
                            => last.v[1][k] = Least(ColumnOf(t, agg.col))
                      /\ (agg.fn = "Max" /\ history[t].rows # <<>>)
                            => last.v[1][k] = Greatest(ColumnOf(t, agg.col))


\* the last call was a SelectAggregate on table t, which holds no rows
AggregatedEmpty(t) ==
    /\ last.query.kind = "SelectAggregate"
    /\ last.query.table = t
    /\ t \in DOMAIN schema /\ t \in DOMAIN history
    /\ schema[t].row_count = 0 \/ history[t].rows = <<>>
    /\ Aggregable(t, last.query.aggregations)

\* Count = 0 and every other result Float32(0), one result per aggregation
ZeroResults ==
    /\ last.ok
    /\ Len(last.v) = 1
    /\ Len(last.v[1]) = Len(last.query.aggregations)
    /\ \A k \in 1..Len(last.query.aggregations) :
          last.v[1][k] = IF last.query.aggregations[k].fn = "Count"
                         THEN Int32(0) ELSE Float32(0)

\* C20: on a table with no rows (new, or emptied by Delete) a
\* SelectAggregate returns Count = 0, Sum = Avg = Float32(0) and
\* Min = Max = Float32(0), not an error (the aggregations naming columns
\* the table has, Count the column ID, Sum and Avg numeric ones).
C20_EmptyTableAggregates == \A t \in TableNames : AggregatedEmpty(t) => ZeroResults


\* the value a Join is meant to project for a name from the pair of the
\* left row i and the right row j (1-based): a name qualified by the right
\* table is the right row's, any other the left row's
Cell(query, col, i, j) ==
    IF JoinSource(col, query.left_table).table = query.right_table
    THEN RowValue(history[query.right_table].columns,
                  history[query.right_table].rows[j],
                  JoinSource(col, query.left_table).col)
    ELSE RowValue(history[query.left_table].columns,
                  history[query.left_table].rows[i],
                  JoinSource(col, query.left_table).col)

\* the pairs (i, j) of nl left and nr right rows in lexicographic order
AllPairs(nl, nr) == [p \in 1..(nl * nr) |-> <<((p - 1) \div nr) + 1, ((p - 1) % nr) + 1>>]

\* the pairs whose keys are equal, in that order
MatchingPairs(query) ==
    SelectSeq(AllPairs(Len(history[query.left_table].rows),
                       Len(history[query.right_table].rows)),
              LAMBDA pr :
                  RowValue(history[query.left_table].columns,
                           history[query.left_table].rows[pr[1]], query.left_column)
                    = RowValue(history[query.right_table].columns,
                               history[query.right_table].rows[pr[2]], query.right_column))

\* the rows a Join is meant to return
ExpectedJoin(query) ==
    [k \in 1..Len(MatchingPairs(query)) |->
        [c \in 1..Len(query.columns) |->
            Cell(query, query.columns[c],
                 MatchingPairs(query)[k][1], MatchingPairs(query)[k][2])]]

\* the last call was a Join of two tables that exist
Joined ==
    /\ last.query.kind = "Join"
    /\ last.query.left_table \in DOMAIN history
    /\ last.query.right_table \in DOMAIN history

\* no projected name of the left table starts with the right table's name
PrefixFree(query) ==
    \A k \in 1..Len(query.columns) :
        starts_with(query.columns[k], query.right_table)
          => JoinSource(query.columns[k], query.left_table).table = query.right_table

\* C17: a Join without a condition emits one row for every pair (i, j) of a
\* left row i and a right row j with equal keys, in lexicographic (i, j)
\* order, and no row when no pair matches (stated for the joins whose
\* projected names leave no doubt about their side).
C17_JoinEmitsMatchingPairs ==
    (Joined /\ PrefixFree(last.query))
      => /\ last.ok
         /\ last.v = ExpectedJoin(last.query)

\* C18: in every row a Join emits for a matching pair (i, j), a name
\* qualified by the left table and a bare name carry the value of left row
\* i, a name qualified by the right table that of right row j, whatever the
\* names are (stated for the Joins that emit a row for every matching pair).
C18_JoinColumnsFromTheirSide ==
    (Joined /\ last.ok /\ Len(last.v) = Len(MatchingPairs(last.query)))
      => last.v = ExpectedJoin(last.query)


\* C21: create_table with a name the schema already has fails with
\* InvalidData and leaves the table as it was: schema entry, column stores,
\* indexes (those made by MakeIndex too), pending rows and files.
C21_CreateExistingChangesNothing ==
    [][(/\ last'.query.kind = "CreateTable"
        /\ last'.query.table \in DOMAIN schema) => Rejected]_vars


\* the values column c of table t holds now, as read without a condition
CurrentValues(t, c) ==
    LET values == read_column(DB, t, c, NoCondition).v
    IN  {values[k].val : k \in 1..Len(values)}

\* the values looked up in the indexes, each in those of its type
Lookups == {Int32(0), Int32(1), StrA, StrB}

\* C22: every index is consistent with its column: lookup(v) returns a
\* non-empty offset list exactly when v occurs among the column's current
\* values, as read_column without a condition returns them.
C22_IndexesMatchColumns ==
    \A t \in DOMAIN indexes :
        \A c \in DOMAIN indexes[t] :
            (last.ok /\ t \in DOMAIN columns /\ c \in DOMAIN columns[t])
              => \A v \in Lookups :
                    v.t = indexes[t][c].data_type
                      => (Index_lookup(indexes[t][c], v).v # <<>>
                            <=> v \in CurrentValues(t, c))

\* the values of column c of the rows of table t that are no longer pending
Flushed(t, c) ==
    SubSeq(ExpectedColumn(t, c), 1, Len(history[t].rows) - PendingRows(t, c))

\* a run list holds exactly the values of a sequence, in its order
HoldsValues(runs, values) ==
    /\ RunsLen(runs) = Len(values)
    /\ \A k \in 1..Len(values) : RunsAt(runs, k - 1) = values[k]

\* the blocks of a store, each read at its offset, in block-list order
BlocksRead(store) ==
    [i \in 1..Len(store.blocks) |-> read_block(DB, store, store.blocks[i])]

\* every block was read, and the blocks one after the other hold the values
Concatenated(reads, values) ==
    /\ \A i \in 1..Len(reads) : reads[i].ok
    /\ HoldsValues(ConcatAll([i \in 1..Len(reads) |-> BlockValues(reads[i])]), values)

\* the offsets of a block list grow strictly from each block to the next
OffsetsIncrease(blocks) ==
    \A i \in 1..(Len(blocks) - 1) : blocks[i].offset < blocks[i + 1].offset

\* C23: for every column store, the offsets of its BlockInfo entries grow
\* strictly in append order, and its blocks read in that order yield the
\* column's flushed values in insertion order.
C23_BlocksInAppendOrder ==
    \A t \in DOMAIN history :
        (t \in DOMAIN schema /\ t \in DOMAIN columns)
            => \A c \in DOMAIN columns[t] :
                  /\ OffsetsIncrease(columns[t][c].blocks)
                  /\ Concatenated(BlocksRead(columns[t][c]), Flushed(t, c))

\* the offsets alone, for the stores of two tables that share their files
C23_OffsetsIncrease ==
    \A t \in DOMAIN columns :
        \A c \in DOMAIN columns[t] : OffsetsIncrease(columns[t][c].blocks)

\* the values the rows offered to Insert hold in a column of a type
ValuesOf(dt) == IF dt = "Int32" THEN {Int32(0), Int32(1)} ELSE {StrA, StrB}

\* the non-empty sequences of such values that a table's rows can make up
Sequences(dt) == UNION {[1..n -> ValuesOf(dt)] : n \in 1..MaxRowCount}

\* the bytes of the column file that a BlockInfo points at
BytesOf(file, b) == SubSeq(file, b.offset + 1, b.offset + b.serialized_size)

\* a BlockInfo has bounds of the type dt that lie in the sequence vs and
\* enclose every value of it
Bounds(b, vs, dt) ==
    /\ b.min.t = dt
    /\ b.max.t = dt
    /\ b.row_count = Len(vs)
    /\ \E i \in 1..Len(vs) : vs[i] = b.min
    /\ \E i \in 1..Len(vs) : vs[i] = b.max
    /\ \A i \in 1..Len(vs) : ~ValueLess(vs[i], b.min) /\ ~ValueLess(b.max, vs[i])

\* the bytes are the encoding of a sequence of values of type dt that the
\* BlockInfo bounds
BoundsItsValues(b, bytes, dt) ==
    \E vs \in Sequences(dt) :
        /\ compress(vs, b.compression) = Ok(bytes)
        /\ Bounds(b, vs, dt)

\* the BlockInfo entries that the step's call recorded for a column store:
\* a Delete rewrites the list, an Insert extends it
Recorded(before, after) ==
    IF last'.query.kind = "Delete" THEN after
    ELSE SubSeq(after, Len(before) + 1, Len(after))

\* every entry of a list of BlockInfo bounds the values written at its offset
AllBound(blocks, file, dt) ==
    \A i \in 1..Len(blocks) : BoundsItsValues(blocks[i], BytesOf(file, blocks[i]), dt)

\* C24: every BlockInfo that append records, in the flush of an Insert and
\* in the rewrite of a Delete, has min and max of the column's type, both
\* among the values written in the block, with min <= v <= max for every
\* value v written in it.
C24_BlockInfoBoundsItsBlock ==
    [][(/\ last'.query.kind \in {"Insert", "Delete"}
        /\ last'.ok
        /\ last'.query.table \in DOMAIN columns)
          => LET t == last'.query.table
             IN  \A c \in DOMAIN columns[t] :
                    AllBound(Recorded(columns[t][c].blocks, columns'[t][c].blocks),
                             disk'.columns[c], columns[t][c].column.data_type)]_vars

\* an Insert has flushed a block of the IDs 0 and 1
C24_Witness ==
    /\ last.query.kind = "Insert"
    /\ last.ok
    /\ "Emp" \in DOMAIN columns
    /\ PendingRows("Emp", "ID") = 0
    /\ \E i \in 1..Len(columns["Emp"]["ID"].blocks) :
          /\ columns["Emp"]["ID"].blocks[i].min = Int32(0)
          /\ columns["Emp"]["ID"].blocks[i].max = Int32(1)

\* a sequence holds a run of more adjacent equal values than one run counts
HasLongRun(values) ==
    \E k \in 1..Len(RleRuns(values)) : RleRuns(values)[k].cnt > RleRunLimit

\* the bytes decode, with Rle, into runs of 1 to RleRunLimit values each
\* that hold the sequence
SplitRuns(decoded, values) ==
    /\ decoded.ok
    /\ \A k \in 1..Len(decoded.v) : decoded.v[k].cnt \in 1..RleRunLimit
    /\ HoldsValues(decoded.v, values)

\* C25: the Rle encoding of a sequence with a run of more than 255 adjacent
\* equal values succeeds, the run being split into consecutive runs of count
\* 1 to 255, and decoding the result returns the sequence.
C25_LongRunsAreSplit ==
    (/\ last.query.kind = "Compress"
     /\ last.query.compression = "Rle"
     /\ HasLongRun(last.query.values))
        => /\ last.ok
           /\ SplitRuns(decompress(last.v, "Rle", last.query.values[1].t),
                        last.query.values)

\* C26: for every scheme and every non-empty sequence of values of one type
\* that is valid for it, decompress on the bytes of compress yields the
\* sequence, and read_block on the block that append wrote yields the
\* values appended.
C26_DecodeInvertsEncode ==
    /\ (last.query.kind = "Compress" /\ last.query.values \in CodecInputs)
          => last.ok
    /\ last.query.kind \in {"Decompress", "ReadBlock"}
          => last.ok /\ HoldsValues(last.v, last.query.values)

\* the first half alone: decompress inverts compress
C26_DecompressInvertsCompress ==
    last.query.kind = "Decompress"
        => last.ok /\ HoldsValues(last.v, last.query.values)

\* a block that the store lists fails to be read or decoded
Unreadable(store) ==
    \E i \in 1..Len(store.blocks) : ~read_block(DB, store, store.blocks[i]).ok

\* C27: when a block that a column's metadata lists cannot be read or
\* decoded, ColumnStore::read, and with it read_column, returns the error
\* instead of success without the rows of the block.
C27_UnreadableBlockIsAnError ==
    \A t \in DOMAIN columns :
        \A c \in DOMAIN columns[t] :
            Unreadable(columns[t][c]) => ~read_column(DB, t, c, NoCondition).ok

\* the same for a Select of every column of the table without a condition
C27_SelectOfUnreadableBlock ==
    (/\ last.query.kind = "Select"
     /\ last.query.columns = <<>>
     /\ last.query.condition = NoCondition
     /\ last.query.table \in DOMAIN columns
     /\ \E c \in DOMAIN columns[last.query.table] :
            Unreadable(columns[last.query.table][c]))
        => ~last.ok

\* C28: while commit_transaction executes a batch, no query of another
\* thread that holds a clone of the storage handle is executed between two
\* queries of the batch.
C28_BatchIsNotInterleaved ==
    [][last'.query.kind = "Outside"
          => ~(0 < last'.query.pos /\ last'.query.pos < last'.query.queries)]_vars

\* C29: begin_transaction returns a transaction without queries whose id
\* is 1 for a new TransactionManager and one more than the id of the call
\* before it otherwise, whatever became of the earlier transactions: the
\* next id is 1 after the manager is made, goes up by one with every call
\* and is changed by nothing else.
C29_IdsCountUpFromOne ==
    [][/\ last'.query.kind = "Begin"
          => /\ tx'.active
             /\ tx'.queries = <<>>
             /\ tx'.id = next_tx_id
             /\ next_tx_id' = next_tx_id + 1
       /\ last'.query.kind = "Reopen" => next_tx_id' = 1
       /\ last'.query.kind \notin {"Begin", "Reopen"} => next_tx_id' = next_tx_id
       /\ last.query.kind = "Open" => next_tx_id = 1]_vars

\* the third transaction of a manager has just been begun, the WAL holding
\* the record of an earlier commit that failed
C29_Witness ==
    /\ last.query.kind = "Begin"
    /\ tx.active
    /\ tx.id = 3
    /\ tx.queries = <<>>
    /\ wal # <<>>

\* row k of a block satisfies the condition at row level
RowHolds(cond, rows, k) ==
    LET r == evaluate_condition_row(cond,
                 [c \in {"ID", "Name"} |-> AsRuns(PruneColumn(rows, c))], k - 1)
    IN  r.ok /\ r.v

\* get_blocks kept the block
KeptBlock(kept, block) == \E j \in 1..Len(kept) : kept[j] = block

\* every block with a row that satisfies the condition is among the kept
Sound(data, blocks, cond, kept) ==
    \A i \in 1..Len(data) :
        (\E k \in 1..Len(data[i]) : RowHolds(cond, data[i], k))
            => KeptBlock(kept, blocks[i])

\* C30: block pruning is sound: get_blocks keeps every block, bounded by
\* its min and max, that holds the column's value of a row satisfying the
\* condition at row level, and a leaf on another column prunes nothing.
C30_PruningIsSound ==
    last.query.kind = "GetBlocks"
        => /\ Sound(last.query.data,
                    PruneBlocks(last.query.data, last.query.column),
                    last.query.condition, last.v)
           /\ (IsLeaf(last.query.condition)
                 /\ last.query.condition.col # last.query.column)
                 => last.v = PruneBlocks(last.query.data, last.query.column)

\* of two blocks of IDs, get_blocks pruned one under a conjunction and kept
\* the other, which holds a row that satisfies it
C30_Witness ==
    /\ last.query.kind = "GetBlocks"
    /\ last.query.column = "ID"
    /\ last.query.condition.op = "And"
    /\ Len(last.query.data) = 2
    /\ Len(last.v) = 1
    /\ \E k \in 1..Len(last.query.data[last.v[1].offset + 1]) :
          RowHolds(last.query.condition, last.query.data[last.v[1].offset + 1], k)

\* the pending list of column c of table t in a map of pending rows
PendingOf(pending, t, c) ==
    IF t \in DOMAIN pending /\ c \in DOMAIN pending[t] THEN pending[t][c] ELSE <<>>

\* the store lists one block more than before, written at the end of the
\* list, whose bytes are the encoding of the values and which counts them
FlushedAs(before, after, file, values, compression) ==
    /\ Len(after.blocks) = Len(before.blocks) + 1
    /\ SubSeq(after.blocks, 1, Len(before.blocks)) = before.blocks
    /\ after.blocks[Len(after.blocks)].row_count = Len(values)
    /\ after.blocks[Len(after.blocks)].compression = compression
    /\ compress(values, compression)
          = Ok(BytesOf(file, after.blocks[Len(after.blocks)]))

\* what a successful insert_row of a row does to column k of table t: the
\* value is buffered, and a buffer that reaches max_rows_per_segment is
\* written as one block and emptied
BufferedOrFlushed(t, k, buffered) ==
    LET c == schema[t].columns[k].name
    IN  IF Len(buffered) >= max_rows_per_segment
        THEN /\ PendingOf(pending_rows', t, c) = <<>>
             /\ FlushedAs(columns[t][c], columns'[t][c], disk'.columns[c], buffered,
                          CompressionFor(schema[t].columns[k].data_type))
        ELSE /\ PendingOf(pending_rows', t, c) = buffered
             /\ columns'[t][c].blocks = columns[t][c].blocks

\* C31: after every insert_row the pending buffers of the table's columns
\* have one length, below max_rows_per_segment; a successful insert_row
\* flushes exactly when the buffer reaches max_rows_per_segment, and the
\* flush writes one block per column with exactly the buffered values in
\* order and leaves the buffer empty.
C31_FlushWhenBufferIsFull ==
    [][(last'.query.kind = "Insert" /\ last'.query.table \in DOMAIN schema)
          => LET t == last'.query.table
             IN  /\ \A k \in 1..Len(schema[t].columns) :
                       /\ Len(PendingOf(pending_rows', t, schema[t].columns[k].name))
                             = Len(PendingOf(pending_rows', t, schema[t].columns[1].name))
                       /\ Len(PendingOf(pending_rows', t, schema[t].columns[k].name))
                             < max_rows_per_segment
                 /\ last'.ok
                       => \A k \in 1..Len(schema[t].columns) :
                             BufferedOrFlushed(t, k,
                                 Append(PendingOf(pending_rows, t, schema[t].columns[k].name),
                                        last'.query.values[k]))]_vars

\* an Insert has flushed: the buffer is empty and the block is written
C31_Witness ==
    /\ last.query.kind = "Insert"
    /\ last.ok
    /\ "Emp" \in DOMAIN columns
    /\ PendingOf(pending_rows, "Emp", "Name") = <<>>
    /\ columns["Emp"]["Name"].blocks # <<>>
    /\ columns["Emp"]["Name"].blocks[Len(columns["Emp"]["Name"].blocks)].row_count
          = max_rows_per_segment
    /\ schema["Emp"].row_count > max_rows_per_segment

\* C32: an insert_row that returns an error leaves the pending buffers, the
\* column stores and their files, the indexes and the schema with its
\* row counts as they were before the call.
C32_FailedInsertChangesNothing ==
    [][(last'.query.kind = "Insert" /\ ~last'.ok)
          => UNCHANGED <<schema, columns, indexes, pending_rows, disk>>]_vars

\* an Insert of a well-formed row into a table with blocks and pending rows
\* was rejected for its ID
C32_Witness ==
    /\ last.query.kind = "Insert"
    /\ ~last.ok
    /\ last.query.table \in DOMAIN schema
    /\ validate_row(DB, last.query.table, last.query.values).ok
    /\ PendingOf(pending_rows, last.query.table, "ID") # <<>>
    /\ columns[last.query.table]["ID"].blocks # <<>>
    /\ schema[last.query.table].row_count > 0

\* what read_column returns for every column of table u in a database
ReadsOf(db, u) ==
    [c \in ColumnNames(db.schema[u]) |-> read_column(db, u, c, NoCondition)]

\* C33: an insert_row (with its flush), a delete_rows (with or without a
\* condition) or a drop_table on one table leaves what read_column returns
\* for every column of every other table as it was, also when the tables
\* have columns of one name.
C33_OtherTablesReadTheSame ==
    [][last'.query.kind \in {"Insert", "Delete", "DropTable"}
          => \A u \in (DOMAIN schema \cap DOMAIN columns) \ {last'.query.table} :
                ReadsOf(DB', u) = ReadsOf(DB, u)]_vars

\* the table has no rows: its row count is zero, every column's block list
\* is empty and every column reads as the empty sequence
ReadsEmpty(t) ==
    /\ schema[t].row_count = 0
    /\ \A c \in ColumnNames(schema[t]) :
          /\ columns[t][c].blocks = <<>>
          /\ read_column(DB, t, c, NoCondition) = Ok(<<>>)

\* C34: right after a successful CreateTable the table has row_count 0 and
\* every column of it has an empty block list and reads as the empty
\* sequence, whatever other tables exist or existed.
C34_NewTableIsEmpty ==
    (last.query.kind = "CreateTable" /\ last.ok) => ReadsEmpty(last.query.table)

\* the last call was a SelectAggregate with a condition on table t
AggregatedWhere(t) ==
    /\ last.query.kind = "SelectAggregate"
    /\ last.query.table = t
    /\ last.query.condition # NoCondition
    /\ t \in DOMAIN schema /\ t \in DOMAIN history
    /\ Aggregable(t, last.query.aggregations)

\* the values of column col in the rows of table t that satisfy the condition
SatisfyingOf(t, col, condition) ==
    LET rows == SelectSeq(history[t].rows,
                          LAMBDA r : RowSatisfies(condition, history[t].columns, r))
    IN  [i \in 1..Len(rows) |-> RowValue(history[t].columns, rows[i], col)]

\* C35: a SelectAggregate with a condition computes each aggregate over
\* exactly the rows that satisfy the condition: Count is their number, Min
\* and Max the least and the greatest value of the named column among
\* them, wherever the rows are (blocks or pending buffer).
C35_AggregateOverSatisfyingRows ==
    \A t \in TableNames :
        AggregatedWhere(t) =>
            /\ last.ok
            /\ Len(last.v) = 1
            /\ Len(last.v[1]) = Len(last.query.aggregations)
            /\ \A k \in 1..Len(last.query.aggregations) :
                  LET agg == last.query.aggregations[k]
                  IN  /\ agg.fn = "Count"
                            => last.v[1][k]
                                 = Int32(Len(SatisfyingOf(t, "ID", last.query.condition)))
                      /\ (agg.fn = "Min"
                            /\ SatisfyingOf(t, agg.col, last.query.condition) # <<>>)
                            => last.v[1][k]
                                 = Least(SatisfyingOf(t, agg.col, last.query.condition))
                      /\ (agg.fn = "Max"
                            /\ SatisfyingOf(t, agg.col, last.query.condition) # <<>>)
                            => last.v[1][k]
                                 = Greatest(SatisfyingOf(t, agg.col, last.query.condition))

\* the position of the last access to key k in a sequence of accesses
LastAccess(log, k) ==
    CHOOSE i \in 1..Len(log) : log[i] = k /\ \A j \in (i + 1)..Len(log) : log[j] # k

\* of a non-empty set of keys that were all accessed, the one whose last
\* access is the earliest
LeastRecent(log, keys) ==
    CHOOSE k \in keys : \A o \in keys : LastAccess(log, k) <= LastAccess(log, o)

\* the queue holds exactly the cached keys, each once, and no more of them
\* than the capacity
QueueIsCache(bm) ==
    /\ Cardinality(DOMAIN bm.cache) <= bm.capacity
    /\ {bm.lru[i] : i \in 1..Len(bm.lru)} = DOMAIN bm.cache
    /\ Len(bm.lru) = Cardinality(DOMAIN bm.cache)

\* C36: with a capacity of at least 1, after every get_block the cache holds
\* no more blocks than the capacity and the recency queue holds exactly the
\* cached keys, each once; a miss at full capacity evicts the cached key
\* whose last access is the earliest (a hit counts as an access), and
\* nothing else leaves the cache.
C36_CacheIsBoundedLru ==
    [][last'.query.kind = "GetBlock"
          => /\ QueueIsCache(buffer')
             /\ (last'.ok /\ last'.query.key \notin DOMAIN buffer.cache)
                   => DOMAIN buffer'.cache
                        = (IF Cardinality(DOMAIN buffer.cache) >= buffer.capacity
                           THEN DOMAIN buffer.cache
                                  \ {LeastRecent(Accesses, DOMAIN buffer.cache)}
                           ELSE DOMAIN buffer.cache) \cup {last'.query.key}
             /\ (~last'.ok \/ last'.query.key \in DOMAIN buffer.cache)
                   => DOMAIN buffer'.cache = DOMAIN buffer.cache]_vars

\* a miss at full capacity has evicted a block that was cached before the
\* block that stays, which was handed out again in between
C36_Witness ==
    /\ last.query.kind = "GetBlock"
    /\ last.ok
    /\ buffer.capacity = 2
    /\ Len(Accesses) = 4
    /\ Accesses[1] = Accesses[3]
    /\ Accesses[2] \notin DOMAIN buffer.cache
    /\ DOMAIN buffer.cache = {Accesses[1], Accesses[4]}
    /\ Accesses[4] \notin {Accesses[1], Accesses[2]}

\* the step is the handling of the command cmd by the REPL
Handles(cmd) == last'.query.kind = "Repl" /\ last'.query.input.cmd = cmd

\* C37: in the REPL at most one transaction is active: a START TRANSACTION
\* while one is active is rejected and leaves the transaction with its
\* queued queries as it is, and an active transaction is never replaced by
\* another; a COMMIT or ROLLBACK without an active transaction is rejected
\* and touches neither the storage nor the WAL; after a COMMIT (successful
\* or not) and after a ROLLBACK no transaction is active.
C37_OneTransactionAtATime ==
    [][/\ (Handles("Start") /\ tx.active)
             => /\ ~last'.ok
                /\ UNCHANGED <<tx, next_tx_id, wal, schema, columns, indexes,
                               pending_rows, disk>>
       /\ (tx.active /\ tx'.active) => tx'.id = tx.id
       /\ ((Handles("Commit") \/ Handles("Rollback")) /\ ~tx.active)
             => /\ ~last'.ok
                /\ UNCHANGED <<tx, next_tx_id, wal, schema, columns, indexes,
                               pending_rows, disk>>
       /\ (Handles("Commit") \/ Handles("Rollback")) => ~tx'.active]_vars

\* a START TRANSACTION was rejected while a transaction with a queued query
\* is active
C37_Witness ==
    /\ last.query.kind = "Repl"
    /\ last.query.input.cmd = "Start"
    /\ ~last.ok
    /\ tx.active
    /\ tx.queries # <<>>

\* C38: in the REPL a data query entered while a transaction is active is
\* only appended to the transaction's queue; storage and WAL stay as they
\* are and no rows are returned.  COMMIT hands the queue to the transaction
\* manager as one batch: the storage afterwards is what executing the
\* queued queries in entry order leaves.  ROLLBACK and EXIT drop the queue
\* without a change of the storage, and once the loop has ended nothing is
\* applied any more.
C38_QueuedUntilCommit ==
    [][/\ (Handles("Query") /\ tx.active)
             => /\ tx' = [tx EXCEPT !.queries = Append(@, last'.query.input.query)]
                /\ last'.v = <<>>
                /\ UNCHANGED <<wal, schema, columns, indexes, pending_rows, disk>>
       /\ (Handles("Start") /\ ~tx.active) => (tx'.active /\ tx'.queries = <<>>)
       /\ (Handles("Commit") /\ tx.active)
             => /\ DB' = ExecuteAll(DB, tx.queries, Len(tx.queries)).db
                /\ last'.ok = ExecuteAll(DB, tx.queries, Len(tx.queries)).ok
                /\ last'.ok => last'.v = ExecuteAll(DB, tx.queries, Len(tx.queries)).v
       /\ ((Handles("Rollback") \/ Handles("Exit")) /\ tx.active)
             => /\ ~tx'.active
                /\ UNCHANGED <<schema, columns, indexes, pending_rows, disk>>
       /\ ~running
             => UNCHANGED <<tx, wal, schema, columns, indexes, pending_rows, disk>>]_vars

\* a COMMIT has applied a batch of two queued queries, of which the first
\* created the table and the second inserted a row
C38_Witness ==
    /\ last.query.kind = "Repl"
    /\ last.query.input.cmd = "Commit"
    /\ last.ok
    /\ next_tx_id = 2
    /\ "Emp" \in DOMAIN schema
    /\ schema["Emp"].row_count = 1

\* what a block-level evaluator is meant to return for a block of a column:
\* a leaf on the column compares the value with the block's bounds and is
\* false when the value is of another type than they are, a leaf on another
\* column is true, And and Or compose
RECURSIVE Specified(_, _, _)
Specified(cond, column_name, block) ==
    IF cond.op = "And"
    THEN Specified(cond.l, column_name, block) /\ Specified(cond.r, column_name, block)
    ELSE IF cond.op = "Or"
    THEN Specified(cond.l, column_name, block) \/ Specified(cond.r, column_name, block)
    ELSE IF cond.col # column_name THEN TRUE
    ELSE IF cond.val.t # block.min.t THEN FALSE
    ELSE IF cond.op = "GreaterThan" THEN ValueLess(cond.val, block.max)
    ELSE IF cond.op = "LessThan" THEN ValueLess(block.min, cond.val)
    ELSE (block.min = cond.val \/ ValueLess(block.min, cond.val))
           /\ (block.max = cond.val \/ ValueLess(cond.val, block.max))

\* C40: matches_condition and evaluate_condition_block return the same for
\* every block and every condition, and what they return is the specified
\* result: GreaterThan iff max > v, LessThan iff min < v, Equal iff
\* min <= v <= max, And and Or compose, a leaf on another column is true, a
\* comparison across types is false.
C40_EvaluatorsAgree ==
    last.query.kind = "EvaluateBlocks"
        => \A i \in 1..Len(last.v) :
              /\ last.v[i].matches = last.v[i].evaluates
              /\ last.v[i].evaluates
                    = Specified(last.query.condition, last.query.column, last.v[i].block)

\* an And of two leaves on the column keeps one block of two and leaves
\* out the other
C40_Witness ==
    /\ last.query.kind = "EvaluateBlocks"
    /\ last.query.condition.op = "And"
    /\ last.query.condition.l.col = last.query.column
    /\ last.query.condition.r.col = last.query.column
    /\ last.query.condition.l.op # last.query.condition.r.op
    /\ Len(last.v) = 2
    /\ last.v[1].evaluates /\ last.v[1].matches
    /\ ~last.v[2].evaluates /\ ~last.v[2].matches

\* no thread is at a lock() while it holds a guard, a thread holds the mutex
\* exactly while it holds a guard, and a thread outside a call holds none
LockedOnce ==
    \A th \in Threads :
        /\ AtPlace(th, "lock") => threads[th].guards = 0
        /\ (mutex = th) = (threads[th].guards > 0)
        /\ ~InCall(th) => threads[th].guards = 0
        /\ (last.query.kind = "Execute" /\ last.query.thread = th)
              => last.query.guards = 0

\* C39: for every variant and outcome, execute never calls lock() while it
\* holds the guard and holds none when it returns; so the mutex is free
\* again and again, and a call that finds the other thread outside a call
\* returns.
C39_LockIsTakenOnceAtATime ==
    /\ []LockedOnce
    /\ []<>(mutex = 0)
    /\ \A th \in Threads : []<>(~InCall(th) \/ \E o \in Threads \ {th} : InCall(o))

\* a thread waits at a lock() while the other holds the guard of the second
\* scope of a Select
C39_Witness ==
    /\ AtPlace(1, "lock")
    /\ mutex = 2
    /\ threads[2].query.kind = "Select"
    /\ threads[2].pc > 3
    /\ threads[1].pc > 1

====
